---- MODULE Spec2Model ----
(***************************************************************************)
(* Environment lifecycle engine of comfydock_core (EnvironmentManager) over *)
(* a container runtime (DockerInterface).  The persisted registry is the    *)
(* list written by _save_environments; the runtime is the set of containers *)
(* with the status the engine reports for each.  Every public operation of  *)
(* EnvironmentManager is one action: its load, its runtime calls and its    *)
(* final save happen in one step.  Runtime calls can fail; the failing call *)
(* of a step is an input of the action.                                     *)
(***************************************************************************)
EXTENDS Integers, Sequences, FiniteSets, TLC

\* ------------------------------------------------------------------ bounds
\* Containers ever provisioned in one behaviour (create + duplicate).
MaxEnvs == 2
\* Readings of time.time() taken by soft deletes in one behaviour.
MaxClock == 2
\* Largest max_deleted argument passed to delete_environment.
MaxDeletedArg == 1
\* Entries of a mount configuration.
MaxMounts == 2
\* Records of the registry that the pruning runs start from.
PruneEnvs == 3
\* Largest deletion timestamp in the registry that the pruning runs start from.
MaxStamp == 1
\* The most directories under custom_nodes.
MaxNodes == 2
\* Processes that use the user settings file.
MaxProcs == 2
\* Polls of a held lock before FileLock.acquire times out.
LockTimeout == 2
\* WebSocket clients, and the slots the dict of connections ever uses.
MaxSockets == 2
MaxSlots == 3
\* The most folders of a settings object.
MaxFolders == 3

\* --------------------------------------------------------------- constants
DELETED_FOLDER_ID == "deleted"

\* Folder tags a record can carry: the reserved one and one user folder.
FolderTags == {DELETED_FOLDER_ID, "f1"}

\* Values of load_environments' folder_id: "" stands for None (no filter).
FolderArgs == {"", "all", DELETED_FOLDER_ID, "f1"}

\* Container numbers; container c has the runtime id <<"id", c>> and the
\* generated name <<"name", c>>.  containers.get accepts either.
Cids == 1..MaxEnvs
\* A number the runtime never hands out: no container.
NoCid == MaxEnvs + PruneEnvs + 1
UnknownId == <<"id", NoCid>>

\* What the runtime reports as container.status, and "absent" for a container
\* that containers.get does not find.
LiveStatuses == {"created", "running", "exited", "dead"}
Absent == "absent"

\* metadata is an open key/value bag; only deleted_at is read by the engine.
NoMetadata == [k \in {} |-> 0]

\* check_environment_name accepts a name of at most this many characters.
MaxNameLength == 128

\* A user label, by its length; NoName is the empty string and the None of
\* EnvironmentUpdate.name.
Label(n) == <<"label", n>>
NameLength(name) == name[2]
NoName == <<>>

\* The image a caller names in create_environment, and the private image
\* comfy-env-clone:<container_name> committed for the duplicate in container c.
UserImage == <<"image", NoCid>>
CloneImage(c) == <<"comfy-env-clone", c>>

\* _generate_container_name for the container number c.
ContainerName(c) == <<"name", c>>

\* The Environment a caller hands to create_environment and
\* duplicate_environment: its name and options["mount_config"]["mounts"].
Request(name, mounts) == [name |-> name, image |-> UserImage, mounts |-> mounts]
DefaultRequest == Request(Label(MaxNameLength), <<>>)

VARIABLES
    db,          \* persisted registry: sequence of Environment records
    containers,  \* runtime: container number -> status or Absent
    images,      \* private images comfy-env-clone:<name>, by container number
    nextId,      \* next container number the runtime hands out
    clock,       \* last reading of time.time()
    last,        \* the last operation: its arguments, outcome and runtime calls
    settings_file,  \* what is at the path of the user settings file
    lock,        \* who holds the lock file of the user settings
    proc,        \* per process: its call on the UserSettingsManager
    ws           \* the ConnectionManager, its broadcast and the event monitor

vars == <<db, containers, images, nextId, clock, last, settings_file, lock, proc, ws>>

\* ----------------------------------------------------------------- helpers
Cid(id) == id[2]

Range(s) == {s[i] : i \in DOMAIN s}

Ids(envs) == {envs[i].id : i \in DOMAIN envs}

IsDeleted(e) == DELETED_FOLDER_ID \in e.folderIds

DeletedEnvs(envs) == SelectSeq(envs, IsDeleted)

HasEnv(env_id, envs) == \E i \in DOMAIN envs : envs[i].id = env_id

\* _find_environment: the first record with the id.
FindIndex(env_id, envs) ==
    CHOOSE i \in DOMAIN envs :
        /\ envs[i].id = env_id
        /\ \A j \in DOMAIN envs : envs[j].id = env_id => i <= j

\* _remove_environment: every record with the id goes.
RemoveEnvironment(env, envs) ==
    LET keep(e) == e.id # env.id IN SelectSeq(envs, keep)

\* A reconciliation that would leave the recorded status of a record whose
\* container is missing (the comparison point for ReconciledStatus).
KeepsStatus(ct, e) ==
    IF ct[Cid(e.id)] = Absent THEN e.status ELSE ct[Cid(e.id)]

\* A load that keeps the stored status of every record (the comparison point
\* for ReconciledStatus in the one-shot copy).
StoredStatus(ct, e) == e.status

\* The status load_environments gives a record: container.status, or "dead"
\* on DockerInterfaceContainerNotFoundError.
ReconciledStatus(ct, e) ==
    IF ct[Cid(e.id)] = Absent THEN "dead" ELSE ct[Cid(e.id)]

\* The status loop of load_environments over the whole list.
Reconcile(envs, ct) ==
    [i \in DOMAIN envs |-> [envs[i] EXCEPT !.status = ReconciledStatus(ct, envs[i])]]

\* The folder filter of load_environments.
FolderFilter(folder_id, e) ==
    IF folder_id = "all"
    THEN DELETED_FOLDER_ID \notin e.folderIds
    ELSE folder_id \in e.folderIds

FilterEnvs(envs, folder_id) ==
    IF folder_id # ""
    THEN LET f(e) == FolderFilter(folder_id, e) IN SelectSeq(envs, f)
    ELSE envs

\* container.stop(): a running container exits, any other keeps its status.
StoppedStatus(s) == IF s = "running" THEN "exited" ELSE s

\* What a call hands to its caller: the operation and its id argument,
\* err (the call that raised, "" when the operation returned), the value
\* returned, the containers stop_container was called on, and the arguments
\* folder_id, max_deleted, allow_multiple where the operation takes them;
\* rmi, the images remove_image was called on, and calls, the runtime calls
\* of an activation in their order; mounts, the mount_config of a creation
\* with its host paths as they were at the call, and binds, the bind mounts
\* create_container was called with; fault, the exec_run failure an
\* installer run met.
Outcome(op, env_id, err, ret, stops) ==
    [op |-> op, id |-> env_id, ok |-> err = "", err |-> err, ret |-> ret,
     stops |-> stops, folder |-> "", maxd |-> 0, multi |-> FALSE,
     rmi |-> {}, calls |-> <<>>, mounts |-> <<>>, binds |-> <<>>,
     fault |-> <<>>, arg |-> <<>>, copied |-> FALSE]

\* No call is in progress: the last one has returned to its caller.
Idle == Outcome("idle", UnknownId, "", <<>>, {})

Ready == last.op = "idle"

\* ----------------------------------------------------------- user settings
\* Python and JSON values: strings, integers, lists, dicts and Folder
\* instances, each with its type.  The text of a string is some characters
\* or the decimal digits of a number.
Text(chars) == <<"text", chars>>
Digits(n) == <<"digits", n>>
Str(text) == <<"str", text>>
Number(n) == <<"int", n>>
List(elems) == <<"list", elems>>
Dict(items) == <<"dict", items>>
Folder(id, name) == <<"Folder", id, name>>

\* The fields of UserSettings, the type of each and its default.
FieldNames ==
    {"comfyui_path", "port", "runtime", "command", "folders",
     "max_deleted_environments", "last_used_image"}

FieldType(k) ==
    CASE k \in {"port", "max_deleted_environments"} -> "int"
      [] k = "folders" -> "folders"
      [] OTHER -> "str"

DefaultPort == 8188
DefaultMaxDeleted == 10
default_comfyui_path == Str(Text("ComfyUI"))

\* A field left as an empty string whatever its type (the comparison point
\* for FieldDefault).
BlankDefault(k) == Str(Text(""))

FieldDefault(k) ==
    CASE k = "port" -> Number(DefaultPort)
      [] k = "runtime" -> Str(Text("nvidia"))
      [] k = "folders" -> List(<<>>)
      [] k = "max_deleted_environments" -> Number(DefaultMaxDeleted)
      [] OTHER -> Str(Text(""))

\* Validation of a Folder: a Folder instance, or a dict with the strings id
\* and name.
IsFolder(v) ==
    \/ v[1] = "Folder"
    \/ /\ v[1] = "dict"
       /\ {"id", "name"} \subseteq DOMAIN v[2]
       /\ v[2].id[1] = "str" /\ v[2].name[1] = "str"

AsFolder(v) == IF v[1] = "Folder" THEN v ELSE Folder(v[2].id, v[2].name)

\* Validation of the value v given for field k: a str field takes a string;
\* an int field takes an integer or a string of digits; folders takes a list
\* of folders.
ValidValue(k, v) ==
    CASE FieldType(k) = "str" -> v[1] = "str"
      [] FieldType(k) = "int" -> v[1] = "int" \/ (v[1] = "str" /\ v[2][1] = "digits")
      [] OTHER -> v[1] = "list" /\ \A i \in DOMAIN v[2] : IsFolder(v[2][i])

\* The value the validated field holds.
Validated(k, v) ==
    CASE FieldType(k) = "str" -> v
      [] FieldType(k) = "int" -> IF v[1] = "int" THEN v ELSE Number(v[2][2])
      [] OTHER -> List([i \in DOMAIN v[2] |-> AsFolder(v[2][i])])

\* UserSettings(**data): <<the instance>>, or <<>> for a ValidationError.
\* comfyui_path is required, the other fields have defaults, keys that are
\* no fields are ignored.
UserSettings(data) ==
    LET given == DOMAIN data \cap FieldNames
    IN  IF "comfyui_path" \in given /\ \A k \in given : ValidValue(k, data[k])
        THEN <<[k \in FieldNames |->
                  IF k \in given THEN Validated(k, data[k]) ELSE FieldDefault(k)]>>
        ELSE <<>>

\* A dump that loses the folders (the comparison point for ModelDump).
DumpWithoutFolders(settings) == [settings EXCEPT !.folders = List(<<>>)]

\* settings.model_dump(): the dict of the fields, every Folder as a dict.
ModelDump(settings) ==
    [k \in FieldNames |->
        IF settings[k][1] = "list"
        THEN List([i \in DOMAIN settings[k][2] |->
                     LET f == settings[k][2][i]
                     IN  IF f[1] = "Folder" THEN Dict([id |-> f[2], name |-> f[3]])
                         ELSE f])
        ELSE settings[k]]

\* model_copy(update=...): the instance with the given values, which are not
\* validated.
ModelCopy(settings, update) ==
    [k \in FieldNames |-> IF k \in DOMAIN update THEN update[k] ELSE settings[k]]

\* What is at the path of the settings file: nothing, a directory, a text
\* that is no JSON, or the JSON text of a value.
Missing == <<"missing">>
Directory == <<"directory">>
Garbage == <<"garbage">>
JsonText(value) == <<"json", value>>

\* A load that answers a bad file with the default settings (the comparison
\* point for LoadError).
ReturnsDefaults(kind) ==
    [err |-> "", ret |-> UserSettings([comfyui_path |-> default_comfyui_path])]

\* A load that raises UserSettingsError.
LoadError(kind) == [err |-> kind, ret |-> <<>>]

\* The body of load under the lock: the error it raises ("" for none) and
\* what it returns.
LoadFile(file) ==
    CASE file = Missing ->
           [err |-> "", ret |-> UserSettings([comfyui_path |-> default_comfyui_path])]
      [] file = Directory -> LoadError("file")
      [] file = Garbage -> LoadError("format")
      [] OTHER ->
           IF file[2][1] # "dict" THEN LoadError("type")
           ELSE IF UserSettings(file[2][2]) = <<>> THEN LoadError("format")
           ELSE [err |-> "", ret |-> UserSettings(file[2][2])]

\* The body of save under the lock: open(settings_file, "w") and json.dump.
SaveFile(file, settings) ==
    IF file = Directory THEN [err |-> "file", file |-> file]
    ELSE [err |-> "", file |-> JsonText(Dict(ModelDump(settings)))]

\* ------------------------------------------------------- settings folders
\* settings.folders as a sequence of Folder instances, and what the folder
\* operations read of each: f.id and f.name.
Folders(settings) == settings.folders[2]
FolderId(f) == f[2]
FolderName(f) == f[3]

\* A folder operation that accepts a name of any length (the comparison
\* point for FolderNameTooLong).
AnyFolderNameLength(folder_name) == FALSE

\* len(folder_name) > 128, for a name that is the string of a label.
FolderNameTooLong(folder_name) == NameLength(folder_name[2]) > MaxNameLength

\* create_folder(settings, folder_name), new_id being str(uuid.uuid4()): the
\* ValueError raised ("" for none) and the settings object afterwards.
CreateFolder(settings, folder_name, new_id) ==
    LET folders == Folders(settings) IN
    IF FolderNameTooLong(folder_name) THEN [err |-> "length", settings |-> settings]
    ELSE IF \E i \in DOMAIN folders : FolderName(folders[i]) = folder_name
    THEN [err |-> "unique", settings |-> settings]
    ELSE [err |-> "",
          settings |-> [settings EXCEPT !.folders =
                           List(Append(folders, Folder(new_id, folder_name)))]]

\* update_folder(settings, folder_id, new_name): the first folder with the
\* id takes the name, unless a folder of another id has it.
UpdateFolder(settings, folder_id, new_name) ==
    LET folders == Folders(settings)
        found == {i \in DOMAIN folders : FolderId(folders[i]) = folder_id}
    IN  IF found = {} THEN [err |-> "notfound", settings |-> settings]
        ELSE IF FolderNameTooLong(new_name)
        THEN [err |-> "length", settings |-> settings]
        ELSE IF \E i \in DOMAIN folders :
                    /\ FolderName(folders[i]) = new_name
                    /\ FolderId(folders[i]) # folder_id
        THEN [err |-> "unique", settings |-> settings]
        ELSE LET first == CHOOSE i \in found : \A j \in found : i <= j
             IN  [err |-> "",
                  settings |-> [settings EXCEPT !.folders =
                                   List([folders EXCEPT ![first] =
                                           Folder(folder_id, new_name)])]]

\* The processes that use the settings file; Other is a holder of the lock
\* file that is none of them.
Procs == 1..MaxProcs
Free == 0
Other == MaxProcs + 1

\* A wait that never times out (the comparison point for TimedOut).
WaitsForever(waited) == FALSE

\* FileLock.acquire gives up when the lock has been polled for lock_timeout.
TimedOut(waited) == waited >= LockTimeout

\* The call of a process: the operation and its phase (an update loads, then
\* saves), the position in it, the polls of the lock it waits for, the argument,
\* the settings in hand, the error raised and the value returned.
Call(op, phase, pc, waited, arg, cur, err, ret) ==
    [op |-> op, phase |-> phase, pc |-> pc, waited |-> waited, arg |-> arg,
     cur |-> cur, err |-> err, ret |-> ret]

NoCall == Call("none", "none", "idle", 0, <<>>, <<>>, "", <<>>)

\* -------------------------------------------------------- ConnectionManager
\* active_connections is a dict in insertion order: a sequence of slots, the
\* slot of a popped key staying behind empty.  A broadcast is idle or awaits
\* a send_json; it holds the dict iterator (pos, the next slot; used, the
\* size of the dict when the iteration began), the connections that were
\* registered when it began and still are (stayed) and those it has sent to.
\* result is how the last broadcast ended; monitoring, whether the loop of
\* monitor_docker_events still runs.
NoSocket == 0

Connections(active_connections) == Range(active_connections) \ {NoSocket}

IteratorAt(pos, used) == [pos |-> pos, used |-> used]

Manager(active_connections, task, it, current, stayed, sent, result, monitoring) ==
    [active_connections |-> active_connections, task |-> task, it |-> it,
     current |-> current, stayed |-> stayed, sent |-> sent, result |-> result,
     monitoring |-> monitoring]

NoConnections == Manager(<<>>, "idle", IteratorAt(1, 0), NoSocket, {}, {}, "none", TRUE)

Init ==
    /\ db = <<>>
    /\ containers = [c \in Cids |-> Absent]
    /\ images = {}
    /\ nextId = 1
    /\ clock = 0
    /\ last = Idle
    /\ ws = NoConnections
    /\ settings_file = Missing
    /\ lock = Free
    /\ proc = [p \in Procs |-> NoCall]

\* ------------------------------------------------------- load_environments
LoadEnvironments(folder_id, fault) ==
    /\ Ready
    /\ IF fault = "load"
       THEN /\ db' = db
            /\ last' = [Outcome("load", UnknownId, "load", <<>>, {}) EXCEPT !.folder = folder_id]
       ELSE /\ db' = Reconcile(db, containers)
            /\ last' = [Outcome("load", UnknownId, "", FilterEnvs(db', folder_id), {})
                           EXCEPT !.folder = folder_id]
    /\ UNCHANGED <<containers, images, nextId, clock, settings_file, ws, lock, proc>>

\* --------------------------------------------------------- mount_config
\* The types of entry the mount functions act on; an entry of any other type
\* is skipped.
MountActions == {"mount", "copy"}

\* A mount entry of options["mount_config"]["mounts"]: its type, whether its
\* container_path contains "custom_nodes", and whether its host path exists,
\* which is the state of the host's file system kept with the entry.
Mount(type, custom, exists) == [type |-> type, custom |-> custom, exists |-> exists]

\* An entry {subpath: action} of an old-style mount_config: its action,
\* whether the subpath contains "custom_nodes", whether comfyui_path/subpath
\* exists.
OldMount(action, custom, exists) == [action |-> action, custom |-> custom, exists |-> exists]

\* The test both create_mounts and copy_directories_to_container make: a
\* mount_config without a "mounts" list is old-style.
IsOldStyle(mount_config) ==
    \E i \in DOMAIN mount_config : "action" \in DOMAIN mount_config[i]

\* The action of an entry of either style.
EntryAction(e) == IF "action" \in DOMAIN e THEN e.action ELSE e.type

IsMountAction(e) == EntryAction(e) \in MountActions

\* convert_old_to_new_style: every entry whose action is mount or copy
\* becomes an entry of type "mount"; the others are dropped.
ConvertOldToNewStyle(old_config) ==
    LET kept == SelectSeq(old_config, IsMountAction)
    IN  [i \in DOMAIN kept |-> Mount("mount", kept[i].custom, kept[i].exists)]

\* The "mounts" list the mount functions iterate over.
NewStyleMounts(mount_config) ==
    IF IsOldStyle(mount_config) THEN ConvertOldToNewStyle(mount_config)
    ELSE mount_config

\* The host paths after _create_mounts_from_new_config: the source path of
\* every mount and copy entry is created when it does not exist.
MadeDirectories(mount_config) ==
    [i \in DOMAIN mount_config |->
        IF IsMountAction(mount_config[i])
        THEN [mount_config[i] EXCEPT !.exists = TRUE]
        ELSE mount_config[i]]

\* create_mounts: the bind mounts handed to create_container, one for every
\* mount and copy entry in their order, each on its (now existing) host path.
\* The read-only /usr/lib/wsl mount of a WSL host is left out.
CreateMounts(mount_config) ==
    SelectSeq(MadeDirectories(NewStyleMounts(mount_config)), IsMountAction)

\* _process_copy_mount and _process_mount_mount: the calls one entry causes,
\* "copy" for copy_to_container and "install" for install_custom_nodes.
ProcessMount(mount) ==
    IF mount.type = "copy"
    THEN IF mount.exists
         THEN <<"copy">> \o (IF mount.custom THEN <<"install">> ELSE <<>>)
         ELSE <<>>
    ELSE IF mount.type = "mount" /\ mount.custom THEN <<"install">>
    ELSE <<>>

\* The loop of copy_directories_to_container over the entries in their order.
RECURSIVE CopyDirectories(_)
CopyDirectories(mounts) ==
    IF mounts = <<>> THEN <<>>
    ELSE ProcessMount(Head(mounts)) \o CopyDirectories(Tail(mounts))

\* A copy that would never report an installation (the comparison point for
\* Installed).
NeverInstalled(mounts) == FALSE

\* What copy_directories_to_container returns: installed_custom_nodes.
Installed(mounts) == \E i \in DOMAIN mounts : "install" \in Range(ProcessMount(mounts[i]))

\* ------------------------------------------------------ create_environment
\* check_environment_name
NameTooLong(name) == NameLength(name) > MaxNameLength

\* A record that would say the new container runs (the comparison point for
\* NewEnvironment).
StartedEnvironment(new_env, c) ==
    [id |-> <<"id", c>>, name |-> new_env.name, image |-> new_env.image,
     container_name |-> ContainerName(c), status |-> "running", folderIds |-> {},
     duplicate |-> FALSE, metadata |-> NoMetadata,
     mounts |-> MadeDirectories(new_env.mounts)]

\* The record create_environment appends for the request new_env, its
\* container being number c.
NewEnvironment(new_env, c) ==
    [id |-> <<"id", c>>, name |-> new_env.name, image |-> new_env.image,
     container_name |-> ContainerName(c), status |-> "created", folderIds |-> {},
     duplicate |-> FALSE, metadata |-> NoMetadata,
     mounts |-> MadeDirectories(new_env.mounts)]

CreateEnvironment(new_env, fault) ==
    /\ Ready
    /\ nextId <= MaxEnvs
    /\ LET envs == Reconcile(db, containers)
           env == NewEnvironment(new_env, nextId)
           out(env_id, err, ret, binds) ==
               [Outcome("create", env_id, err, ret, {})
                   EXCEPT !.mounts = new_env.mounts, !.binds = binds]
       IN CASE fault = "load" ->
                 /\ UNCHANGED <<db, containers, nextId>>
                 /\ last' = out(UnknownId, fault, <<>>, <<>>)
            [] fault # "load" /\ NameTooLong(new_env.name) ->
                 /\ db' = envs
                 /\ UNCHANGED <<containers, nextId>>
                 /\ last' = out(UnknownId, "name", <<>>, <<>>)
            [] fault = "image" /\ ~NameTooLong(new_env.name) ->
                 /\ db' = envs
                 /\ UNCHANGED <<containers, nextId>>
                 /\ last' = out(UnknownId, fault, <<>>, <<>>)
            [] fault = "create" /\ ~NameTooLong(new_env.name) ->
                 /\ db' = envs
                 /\ UNCHANGED <<containers, nextId>>
                 /\ last' = out(UnknownId, fault, <<>>, CreateMounts(new_env.mounts))
            [] fault = "save" /\ ~NameTooLong(new_env.name) ->
                 /\ db' = envs
                 /\ containers' = [containers EXCEPT ![nextId] = "created"]
                 /\ nextId' = nextId + 1
                 /\ last' = out(env.id, fault, <<>>, CreateMounts(new_env.mounts))
            [] OTHER ->
                 /\ db' = Append(envs, env)
                 /\ containers' = [containers EXCEPT ![nextId] = "created"]
                 /\ nextId' = nextId + 1
                 /\ last' = out(env.id, "", <<env>>, CreateMounts(new_env.mounts))
    /\ UNCHANGED <<images, clock, settings_file, ws, lock, proc>>

\* What an operation computes: the registry it persisted, the runtime and the
\* private images it left, the call that raised ("" when it returned), its
\* return value, the containers it called stop_container on.  The errors:
\* a failing call by its name; "unknown" for the ValueError of
\* _find_environment; "notfound" for DockerInterfaceContainerNotFoundError
\* on the target; "created" for the refusal to duplicate.
Result(envs, ct, img, err, ret, stops) ==
    [db |-> envs, ct |-> ct, img |-> img, err |-> err, ret |-> ret, stops |-> stops]

Raised(envs, ct, img, stops, err) == Result(envs, ct, img, err, <<>>, stops)

\* ---------------------------------------------------- activate_environment
\* The test of _stop_other_environments on each record.
IsOtherRunning(env, current_env_id) ==
    env.id # current_env_id /\ env.status = "running"

\* _stop_other_environments from record i on.  gone: a container that has
\* disappeared since the load (get_container raises NotFound, which is
\* caught); bad: a container whose stop fails with DockerInterfaceError,
\* which is not caught.
RECURSIVE StopOtherEnvironments(_, _, _, _, _, _)
StopOtherEnvironments(envs, i, current_env_id, ct, gone, bad) ==
    IF i > Len(envs)
    THEN [ct |-> ct, err |-> FALSE, stops |-> {}]
    ELSE LET env == envs[i]
             c == Cid(env.id)
         IN IF ~IsOtherRunning(env, current_env_id)
            THEN StopOtherEnvironments(envs, i + 1, current_env_id, ct, gone, bad)
            ELSE IF c = gone
            THEN StopOtherEnvironments(envs, i + 1, current_env_id,
                                       [ct EXCEPT ![c] = Absent], gone, bad)
            ELSE IF c = bad
            THEN [ct |-> ct, err |-> TRUE, stops |-> {c}]
            ELSE LET rest == StopOtherEnvironments(envs, i + 1, current_env_id,
                                 [ct EXCEPT ![c] = StoppedStatus(ct[c])], gone, bad)
                 IN [rest EXCEPT !.stops = @ \cup {c}]

\* start_container starts unless the fetched container.status is "running";
\* the runtime refuses to start a container in its "dead" state.
StartFails(status, fault) ==
    status # "running" /\ (fault = "start" \/ status = "dead")

\* The runtime calls of an activation that got to its end: start_container
\* starts a container that is not running; a first activation copies, and
\* restarts when the copy installed custom nodes.
ActivationCalls(env, status) ==
    (IF status # "running" THEN <<"start">> ELSE <<>>)
        \o (IF env.status = "created"
            THEN CopyDirectories(NewStyleMounts(env.mounts))
                    \o (IF Installed(NewStyleMounts(env.mounts)) THEN <<"restart">> ELSE <<>>)
            ELSE <<>>)

\* activate_environment has called copy_directories_to_container: the record
\* it loaded was "created" and the call got past start_container.
CopyAttempted(envs, env_id, err) ==
    /\ HasEnv(env_id, envs)
    /\ envs[FindIndex(env_id, envs)].status = "created"
    /\ err \in {"", "copy", "restart", "save"}

Activate(envs0, ct0, img, env_id, allow_multiple, gone, bad, fault) ==
    LET envs == Reconcile(envs0, ct0) IN
    IF fault = "load" THEN Raised(envs0, ct0, img, {}, "load")
    ELSE IF ~HasEnv(env_id, envs) THEN Raised(envs, ct0, img, {}, "unknown")
    ELSE
    LET i == FindIndex(env_id, envs)
        env == envs[i]
        c == Cid(env.id)
    IN  IF ct0[c] = Absent THEN Raised(envs, ct0, img, {}, "notfound")
        ELSE IF fault = "get" THEN Raised(envs, ct0, img, {}, "get")
        ELSE
        LET so == IF allow_multiple
                  THEN [ct |-> ct0, err |-> FALSE, stops |-> {}]
                  ELSE StopOtherEnvironments(envs, 1, env_id, ct0, gone, bad)
            started == [so.ct EXCEPT ![c] = "running"]
            running == [env EXCEPT !.status = "running"]
        IN  IF so.err THEN Raised(envs, so.ct, img, so.stops, "stop")
            ELSE IF StartFails(ct0[c], fault)
            THEN Raised(envs, so.ct, img, so.stops, "start")
            ELSE IF env.status = "created" /\ fault = "copy"
            THEN Raised(envs, started, img, so.stops, "copy")
            ELSE IF env.status = "created" /\ Installed(NewStyleMounts(env.mounts))
                    /\ fault = "restart"
            THEN Raised(envs, started, img, so.stops, "restart")
            ELSE IF fault = "save"
            THEN Raised(envs, started, img, so.stops, "save")
            ELSE [calls |-> ActivationCalls(env, ct0[c])]
                    @@ Result([envs EXCEPT ![i] = running], started, img, "",
                              <<running>>, so.stops)

ActivateEnvironment(env_id, allow_multiple, gone, bad, fault) ==
    LET r == Activate(db, containers, images, env_id, allow_multiple, gone, bad, fault)
    IN  /\ Ready
        /\ db' = r.db
        /\ containers' = r.ct
        /\ last' = [Outcome("activate", env_id, r.err, r.ret, r.stops)
                       EXCEPT !.multi = allow_multiple,
                              !.calls = IF r.err = "" THEN r.calls ELSE <<>>,
                              !.copied = CopyAttempted(Reconcile(db, containers),
                                                       env_id, r.err)]
        /\ UNCHANGED <<images, nextId, clock, settings_file, ws, lock, proc>>

\* -------------------------------------------------- deactivate_environment
\* The test of deactivate_environment on the fetched container.status.
NeedsStop(status) == status \notin {"stopped", "exited", "created", "dead"}

Deactivate(envs0, ct0, img, env_id, fault) ==
    LET envs == Reconcile(envs0, ct0) IN
    IF fault = "load" THEN Raised(envs0, ct0, img, {}, "load")
    ELSE IF ~HasEnv(env_id, envs) THEN Raised(envs, ct0, img, {}, "unknown")
    ELSE
    LET i == FindIndex(env_id, envs)
        env == envs[i]
        c == Cid(env.id)
        stopped == [env EXCEPT !.status = "stopped"]
        ct1 == [ct0 EXCEPT ![c] = StoppedStatus(ct0[c])]
    IN  IF ct0[c] = Absent THEN Raised(envs, ct0, img, {}, "notfound")
        ELSE IF fault = "get" THEN Raised(envs, ct0, img, {}, "get")
        ELSE IF ~NeedsStop(ct0[c]) THEN Result(envs, ct0, img, "", <<env>>, {})
        ELSE IF fault = "stop" THEN Raised(envs, ct0, img, {c}, "stop")
        ELSE IF fault = "save" THEN Raised(envs, ct1, img, {c}, "save")
        ELSE Result([envs EXCEPT ![i] = stopped], ct1, img, "", <<stopped>>, {c})

DeactivateEnvironment(env_id, fault) ==
    LET r == Deactivate(db, containers, images, env_id, fault)
    IN  /\ Ready
        /\ db' = r.db
        /\ containers' = r.ct
        /\ last' = Outcome("deactivate", env_id, r.err, r.ret, r.stops)
        /\ UNCHANGED <<images, nextId, clock, settings_file, ws, lock, proc>>

\* ------------------------------------------------------ delete_environment
\* metadata.get("deleted_at", 0), the sort key of _prune_deleted_environments.
DeletedAtKey(e) ==
    IF "deleted_at" \in DOMAIN e.metadata THEN e.metadata["deleted_at"] ELSE 0

\* env.metadata["deleted_at"] = time.time()
WithDeletedAt(metadata, now) ==
    [k \in DOMAIN metadata \cup {"deleted_at"} |->
        IF k = "deleted_at" THEN now ELSE metadata[k]]

\* An insertion that would put an element before those of the same key (the
\* comparison point for InsertByDeletedAt).
RECURSIVE InsertBeforeTies(_, _)
InsertBeforeTies(e, s) ==
    IF s = <<>> THEN <<e>>
    ELSE IF DeletedAtKey(Head(s)) < DeletedAtKey(e)
    THEN <<Head(s)>> \o InsertBeforeTies(e, Tail(s))
    ELSE <<e>> \o s

\* list.sort(key=...) is stable: an element goes after every element whose
\* key is not larger.
RECURSIVE InsertByDeletedAt(_, _)
InsertByDeletedAt(e, s) ==
    IF s = <<>> THEN <<e>>
    ELSE IF DeletedAtKey(Head(s)) <= DeletedAtKey(e)
    THEN <<Head(s)>> \o InsertByDeletedAt(e, Tail(s))
    ELSE <<e>> \o s

RECURSIVE SortByDeletedAt(_)
SortByDeletedAt(s) ==
    IF s = <<>> THEN <<>>
    ELSE InsertByDeletedAt(s[Len(s)], SortByDeletedAt(SubSeq(s, 1, Len(s) - 1)))

\* A pruning count one short (the comparison point for NumToPrune).
NumToPruneShort(n, max_deleted) == n - max_deleted - 1

\* num_to_prune of _prune_deleted_environments.
NumToPrune(n, max_deleted) == n - max_deleted

\* A fault is <<call, c>>: the call that fails and the container it fails on
\* (NoCid when the call has no container).
NoFault == <<"none", NoCid>>

\* A hard delete that would remove the image of every record (the comparison
\* point for RemovesImage).
AlwaysRemovesImage(env) == TRUE

\* The test of _hard_delete_environment before remove_image(env.image).
RemovesImage(env) == env.duplicate

\* _hard_delete_environment.  A missing container is tolerated; a failing
\* stop or remove raises DockerInterfaceError; a failing remove_image is
\* logged.  A remove the runtime could not complete can leave the container
\* in its "dead" state.  err is the call that raised, "" when none did.
HardDelete(env, envs, ct, img, fault) ==
    LET c == Cid(env.id)
        hit(call) == fault = <<call, c>>
        ct1 == [ct EXCEPT ![c] = StoppedStatus(ct[c])]
        img1 == IF RemovesImage(env) /\ ~hit("image") THEN img \ {c} ELSE img
        gone == [envs |-> RemoveEnvironment(env, envs), ct |-> ct, img |-> img1,
                 err |-> "", stops |-> {},
                 rmi |-> IF RemovesImage(env) THEN {env.image} ELSE {}]
    IN  IF ct[c] = Absent THEN gone
        ELSE IF hit("stop")
        THEN [envs |-> envs, ct |-> ct, img |-> img, err |-> "stop", stops |-> {c},
              rmi |-> {}]
        ELSE IF hit("remove")
        THEN [envs |-> envs, ct |-> ct1, img |-> img, err |-> "remove", stops |-> {c},
              rmi |-> {}]
        ELSE IF hit("remove_dead")
        THEN [envs |-> envs, ct |-> [ct1 EXCEPT ![c] = "dead"], img |-> img,
              err |-> "remove", stops |-> {c}, rmi |-> {}]
        ELSE [gone EXCEPT !.ct = [ct1 EXCEPT ![c] = Absent], !.stops = {c}]

\* The loop of _prune_deleted_environments over deleted_envs[:num_to_prune].
RECURSIVE PruneLoop(_, _, _, _, _, _)
PruneLoop(victims, i, envs, ct, img, fault) ==
    IF i > Len(victims)
    THEN [envs |-> envs, ct |-> ct, img |-> img, err |-> "", stops |-> {},
          rmi |-> {}]
    ELSE LET h == HardDelete(victims[i], envs, ct, img, fault)
         IN IF h.err # "" THEN h
            ELSE LET rest == PruneLoop(victims, i + 1, h.envs, h.ct, h.img, fault)
                 IN [rest EXCEPT !.stops = @ \cup h.stops, !.rmi = @ \cup h.rmi]

PruneDeletedEnvironments(envs, ct, img, max_deleted, fault) ==
    LET deleted_envs == DeletedEnvs(envs)
        sorted == SortByDeletedAt(deleted_envs)
        num_to_prune == NumToPrune(Len(deleted_envs), max_deleted)
    IN  IF Len(deleted_envs) <= max_deleted
        THEN [envs |-> envs, ct |-> ct, img |-> img, err |-> "", stops |-> {},
              rmi |-> {}]
        ELSE PruneLoop(SubSeq(sorted, 1, num_to_prune), 1, envs, ct, img, fault)

\* A soft delete that would not tag (the comparison point for SoftDeleted).
Untagged(env, now) == env

\* The record delete_environment marks as deleted.
SoftDeleted(env, now) ==
    [env EXCEPT !.folderIds = {DELETED_FOLDER_ID},
                !.metadata = WithDeletedAt(env.metadata, now)]

Delete(envs0, ct0, img, env_id, max_deleted, now, fault) ==
    LET envs == Reconcile(envs0, ct0) IN
    IF fault[1] = "load" THEN [rmi |-> {}] @@ Raised(envs0, ct0, img, {}, "load")
    ELSE IF ~HasEnv(env_id, envs) THEN [rmi |-> {}] @@ Raised(envs, ct0, img, {}, "unknown")
    ELSE
    LET i == FindIndex(env_id, envs)
        env == envs[i]
        r == IF IsDeleted(env)
             THEN HardDelete(env, envs, ct0, img, fault)
             ELSE PruneDeletedEnvironments([envs EXCEPT ![i] = SoftDeleted(env, now)],
                                           ct0, img, max_deleted, fault)
        res == IF r.err # "" THEN Raised(envs, r.ct, r.img, r.stops, r.err)
               ELSE IF fault[1] = "save" THEN Raised(envs, r.ct, r.img, r.stops, "save")
               ELSE Result(r.envs, r.ct, r.img, "", <<>>, r.stops)
    IN  [rmi |-> r.rmi] @@ res

\* Whether the call reads time.time(): it soft-deletes.
ReadsClock(env_id, fault) ==
    /\ fault[1] # "load"
    /\ HasEnv(env_id, db)
    /\ ~IsDeleted(db[FindIndex(env_id, db)])

DeleteEnvironment(env_id, max_deleted, fault) ==
    /\ Ready
    /\ ReadsClock(env_id, fault) => clock < MaxClock
    /\ LET r == Delete(db, containers, images, env_id, max_deleted, clock + 1, fault)
       IN  /\ db' = r.db
           /\ containers' = r.ct
           /\ images' = r.img
           /\ last' = [Outcome("delete", env_id, r.err, r.ret, r.stops)
                          EXCEPT !.maxd = max_deleted, !.rmi = r.rmi]
    /\ clock' = IF ReadsClock(env_id, fault) THEN clock + 1 ELSE clock
    /\ UNCHANGED <<nextId, settings_file, ws, lock, proc>>

\* ------------------------------------------------------ update_environment
\* An update that would rename the container with the record (the comparison
\* point for UpdatedContainerName).
RenamedContainer(env, name) == name

\* The container_name update_environment leaves when it sets a name: the
\* name itself only where the record had none.
UpdatedContainerName(env, name) ==
    IF env.container_name = NoName THEN name ELSE env.container_name

\* An EnvironmentUpdate whose folderIds is never None (the comparison point
\* for GivenFolderIds).
AlwaysGivenFolderIds(update) == TRUE

\* update.folderIds is not None: the field is Optional and defaults to None.
GivenFolderIds(update) == update.has

\* update.folderIds: None (has = FALSE) or the new list; update.name: None
\* (NoName) or the new name.
Update(envs0, ct0, img, env_id, update, fault) ==
    LET envs == Reconcile(envs0, ct0) IN
    IF fault = "load" THEN Raised(envs0, ct0, img, {}, "load")
    ELSE IF ~HasEnv(env_id, envs) THEN Raised(envs, ct0, img, {}, "unknown")
    ELSE
    LET i == FindIndex(env_id, envs)
        named == IF update.name # NoName
                 THEN [envs[i] EXCEPT !.name = update.name,
                                      !.container_name =
                                          UpdatedContainerName(envs[i], update.name)]
                 ELSE envs[i]
        env == IF GivenFolderIds(update)
               THEN [named EXCEPT !.folderIds = update.folderIds]
               ELSE named
    IN  IF fault = "save" THEN Raised(envs, ct0, img, {}, "save")
        ELSE Result([envs EXCEPT ![i] = env], ct0, img, "", <<env>>, {})

UpdateEnvironment(env_id, update, fault) ==
    LET r == Update(db, containers, images, env_id, update, fault)
    IN  /\ Ready
        /\ db' = r.db
        /\ last' = [Outcome("update", env_id, r.err, r.ret, r.stops)
                       EXCEPT !.arg = update]
        /\ UNCHANGED <<containers, images, nextId, clock, settings_file, ws, lock, proc>>

\* --------------------------------------------------- duplicate_environment
\* No precondition on the source (the comparison point for CanDuplicate).
AnySource(original) == TRUE

\* The precondition duplicate_environment tests on the source record.
CanDuplicate(original) == original.status # "created"

\* The record duplicate_environment appends: its id is the generated
\* container name.
DuplicateOf(original, new_env, c) ==
    [id |-> ContainerName(c), name |-> new_env.name, image |-> CloneImage(c),
     container_name |-> ContainerName(c), status |-> "created", folderIds |-> {},
     duplicate |-> TRUE, metadata |-> original.metadata,
     mounts |-> MadeDirectories(new_env.mounts)]

\* A duplication that stores the new record in the place of its source (the
\* comparison point for WithDuplicate).
InPlaceOfSource(envs, original, copy) ==
    [envs EXCEPT ![FindIndex(original.id, envs)] = copy]

\* environments.append(new_env): the list duplicate_environment saves.
WithDuplicate(envs, original, copy) == Append(envs, copy)

Duplicate(envs0, ct0, img, env_id, new_env, c, fault) ==
    LET envs == Reconcile(envs0, ct0) IN
    IF fault = "load" THEN Raised(envs0, ct0, img, {}, "load")
    ELSE IF ~HasEnv(env_id, envs) THEN Raised(envs, ct0, img, {}, "unknown")
    ELSE
    LET original == envs[FindIndex(env_id, envs)]
        copy == DuplicateOf(original, new_env, c)
        ct1 == [ct0 EXCEPT ![c] = "created"]
    IN  IF ~CanDuplicate(original) THEN Raised(envs, ct0, img, {}, "created")
        ELSE IF ct0[Cid(env_id)] = Absent THEN Raised(envs, ct0, img, {}, "notfound")
        ELSE IF fault = "commit" THEN Raised(envs, ct0, img, {}, "commit")
        ELSE IF fault = "create" THEN Raised(envs, ct0, img \cup {c}, {}, "create")
        ELSE IF fault = "save" THEN Raised(envs, ct1, img \cup {c}, {}, "save")
        ELSE Result(WithDuplicate(envs, original, copy), ct1, img \cup {c}, "",
                    <<copy>>, {})

DuplicateEnvironment(env_id, new_env, fault) ==
    /\ Ready
    /\ nextId <= MaxEnvs
    /\ LET r == Duplicate(db, containers, images, env_id, new_env, nextId, fault)
       IN  /\ db' = r.db
           /\ containers' = r.ct
           /\ images' = r.img
           /\ nextId' = IF r.ct[nextId] # Absent THEN nextId + 1 ELSE nextId
           /\ last' = [Outcome("duplicate", env_id, r.err, r.ret, r.stops)
                          EXCEPT !.mounts = new_env.mounts,
                                 !.binds = IF r.err \in {"", "save", "create"}
                                           THEN CreateMounts(new_env.mounts)
                                           ELSE <<>>]
    /\ UNCHANGED <<clock, settings_file, ws, lock, proc>>

\* ---------------------------------------------------- install_custom_nodes
BLACKLIST_REQUIREMENTS == {"torch"}

\* A directory the find command lists under custom_nodes: whether it holds a
\* requirements.txt, and the packages that file names.
CustomNode(manifest, requirements) == [manifest |-> manifest, requirements |-> requirements]

\* The exec_run calls made for one directory, in their order.
ExecSteps == <<"check", "read", "write", "install", "remove">>

\* How one exec_run call fails: the command exits non-zero, or the call
\* raises.  dir is the directory it is made for, 0 for no failure.
ExecFault(dir, step, kind) == [dir |-> dir, step |-> step, kind |-> kind]
NoExecFault == ExecFault(0, "", "")

Fails(fault, i, step, kind) == fault = ExecFault(i, step, kind)

\* The requirement lines the installer keeps for directory i: the lines of
\* the file without the blacklisted packages; when cat exits non-zero, the
\* line of its error message.
FilteredRequirements(node, i, fault) ==
    IF Fails(fault, i, "read", "exit") THEN {"cat"}
    ELSE node.requirements \ BLACKLIST_REQUIREMENTS

\* The exec_run calls of the loop body for directory i up to the one that
\* raises, and whether one raised.  A check that exits non-zero does not
\* print "exists"; no other exit code is looked at.
InstallNode(node, i, fault) ==
    LET step(k) == <<ExecSteps[k], i>>
        upTo(n) == [k \in 1..n |-> step(k)]
        raises(k) == Fails(fault, i, ExecSteps[k], "raise")
    IN  IF raises(1) THEN [calls |-> upTo(1), raised |-> TRUE]
        ELSE IF ~node.manifest \/ Fails(fault, i, "check", "exit")
        THEN [calls |-> upTo(1), raised |-> FALSE]
        ELSE IF raises(2) THEN [calls |-> upTo(2), raised |-> TRUE]
        ELSE IF FilteredRequirements(node, i, fault) = {}
        THEN [calls |-> upTo(2), raised |-> FALSE]
        ELSE IF raises(3) THEN [calls |-> upTo(3), raised |-> TRUE]
        ELSE IF raises(4) THEN [calls |-> upTo(4), raised |-> TRUE]
        ELSE [calls |-> upTo(5), raised |-> raises(5)]

\* The loop of install_custom_nodes over the directories from the i-th on.
RECURSIVE InstallNodes(_, _, _)
InstallNodes(nodes, i, fault) ==
    IF i > Len(nodes) THEN [calls |-> <<>>, raised |-> FALSE]
    ELSE LET r == InstallNode(nodes[i], i, fault)
             rest == InstallNodes(nodes, i + 1, fault)
         IN  IF r.raised THEN r
             ELSE [calls |-> r.calls \o rest.calls, raised |-> rest.raised]

\* install_custom_nodes on a container whose custom_nodes holds the
\* directories nodes: its caller gets the exec_run calls made and, in err,
\* whether one of them raised.
InstallCustomNodes(nodes, fault) ==
    LET r == InstallNodes(nodes, 1, fault)
    IN  /\ Ready
        /\ last' = [Outcome("install", UnknownId, IF r.raised THEN "exec" ELSE "", nodes, {})
                       EXCEPT !.calls = r.calls, !.fault = fault]
        /\ UNCHANGED <<db, containers, images, nextId, clock, settings_file, ws, lock, proc>>

\* ----------------------------------------- UserSettingsManager operations
EngineVars == <<db, containers, images, nextId, clock, last>>

\* Process p calls load(), save(settings) or update(new_settings): it makes
\* a FileLock and enters the with block.
CallSettings(p, op, arg) ==
    /\ proc[p].pc = "idle"
    /\ proc' = [proc EXCEPT ![p] =
                  Call(op, IF op = "save" THEN "save" ELSE "load", "acquire", 0,
                       arg, <<>>, "", <<>>)]
    /\ UNCHANGED <<EngineVars, settings_file, ws, lock>>

\* The lock is free: p takes it.
AcquireLock(p) ==
    /\ proc[p].pc = "acquire"
    /\ lock = Free
    /\ lock' = p
    /\ proc' = [proc EXCEPT ![p].pc = "locked", ![p].waited = 0]
    /\ UNCHANGED <<EngineVars, settings_file, ws>>

\* The lock is held and the timeout has not passed: p polls again.
WaitForLock(p) ==
    /\ proc[p].pc = "acquire"
    /\ lock # Free
    /\ ~TimedOut(proc[p].waited)
    /\ proc' = [proc EXCEPT ![p].waited =
                  IF @ < LockTimeout THEN @ + 1 ELSE @]
    /\ UNCHANGED <<EngineVars, settings_file, ws, lock>>

\* The lock is held and the timeout has passed: Timeout, which the call
\* raises as UserSettingsError.
LockTimesOut(p) ==
    /\ proc[p].pc = "acquire"
    /\ lock # Free
    /\ TimedOut(proc[p].waited)
    /\ proc' = [proc EXCEPT ![p].pc = "returned", ![p].err = "lock",
                             ![p].waited = 0]
    /\ UNCHANGED <<EngineVars, settings_file, ws, lock>>

\* p reads the file under the lock and leaves the with block; a load
\* returns or raises, an update goes on to save the copy, or raises.
LoadBody(p) ==
    LET r == LoadFile(settings_file)
        updated == ModelCopy(r.ret[1], proc[p].arg)
    IN  /\ proc[p].pc = "locked"
        /\ proc[p].phase = "load"
        /\ lock' = Free
        /\ proc' = [proc EXCEPT ![p] =
                      IF r.err # "" THEN [@ EXCEPT !.pc = "returned", !.err = r.err]
                      ELSE IF proc[p].op = "load"
                      THEN [@ EXCEPT !.pc = "returned", !.ret = r.ret]
                      ELSE [@ EXCEPT !.pc = "acquire", !.phase = "save",
                                     !.waited = 0, !.cur = <<updated>>]]
        /\ UNCHANGED <<EngineVars, settings_file, ws>>

\* p writes the file under the lock and leaves the with block; an update
\* returns the settings it saved.
SaveBody(p) ==
    LET settings == IF proc[p].op = "save" THEN proc[p].arg ELSE proc[p].cur[1]
        r == SaveFile(settings_file, settings)
    IN  /\ proc[p].pc = "locked"
        /\ proc[p].phase = "save"
        /\ lock' = Free
        /\ settings_file' = r.file
        /\ proc' = [proc EXCEPT ![p] =
                      IF r.err # "" THEN [@ EXCEPT !.pc = "returned", !.err = r.err]
                      ELSE IF proc[p].op = "update"
                      THEN [@ EXCEPT !.pc = "returned", !.ret = <<settings>>]
                      ELSE [@ EXCEPT !.pc = "returned"]]
        /\ UNCHANGED <<EngineVars, ws>>

\* The caller of p has the result.
ReturnSettings(p) ==
    /\ proc[p].pc = "returned"
    /\ proc' = [proc EXCEPT ![p] = NoCall]
    /\ UNCHANGED <<EngineVars, settings_file, ws, lock>>

\* p, holding a settings object, calls create_folder on it; the object is
\* changed in place and handed back, or ValueError is raised.
CreateFolderCall(p, folder_name, new_id) ==
    /\ proc[p].pc = "idle" /\ proc[p].cur # <<>>
    /\ LET r == CreateFolder(proc[p].cur[1], folder_name, new_id)
       IN  /\ r.err # "" \/ Len(Folders(proc[p].cur[1])) < MaxFolders
           /\ proc' = [proc EXCEPT ![p] =
                          Call("create_folder", "none", "idle", 0, <<folder_name>>,
                               <<r.settings>>, r.err,
                               IF r.err = "" THEN <<r.settings>> ELSE <<>>)]
    /\ UNCHANGED <<EngineVars, settings_file, ws, lock>>

\* p calls update_folder on the settings object it holds.
UpdateFolderCall(p, folder_id, new_name) ==
    /\ proc[p].pc = "idle" /\ proc[p].cur # <<>>
    /\ LET r == UpdateFolder(proc[p].cur[1], folder_id, new_name)
       IN  proc' = [proc EXCEPT ![p] =
                       Call("update_folder", "none", "idle", 0,
                            <<folder_id, new_name>>, <<r.settings>>, r.err,
                            IF r.err = "" THEN <<r.settings>> ELSE <<>>)]
    /\ UNCHANGED <<EngineVars, settings_file, ws, lock>>

\* --------------------------------------------- concurrent engine operations
\* Several callers run engine operations at once.  The lock file is held
\* only inside each load and each save of the registry, so a call is a
\* series of steps: it reads the file, reconciles the list it read with the
\* runtime and writes it back (load_environments), works on its own list and
\* on the runtime, and saves its list.
EngineOps == {"load", "create", "activate", "delete"}

\* The middle of an operation, between its load and its save, on the list
\* cur the call holds: the list and the runtime afterwards, the error raised
\* ("" for none), the value to return and, for a deletion, its kind.
EngineWork(call, ct, img, c, now) ==
    LET cur == call.cur
        raised(err) == [envs |-> cur, ct |-> ct, img |-> img, err |-> err,
                        ret |-> <<>>, phase |-> "none"]
    IN  CASE call.op = "create" ->
               IF NameTooLong(call.arg.name) THEN raised("name")
               ELSE [envs |-> Append(cur, NewEnvironment(call.arg, c)),
                     ct |-> [ct EXCEPT ![c] = "created"], img |-> img, err |-> "",
                     ret |-> <<NewEnvironment(call.arg, c)>>, phase |-> "none"]
          [] call.op \in {"activate", "delete"} /\ ~HasEnv(call.arg, cur) ->
               raised("unknown")
          [] call.op = "activate" /\ HasEnv(call.arg, cur) ->
               LET i == FindIndex(call.arg, cur)
                   t == Cid(call.arg)
                   so == StopOtherEnvironments(cur, 1, call.arg, ct, NoCid, NoCid)
                   running == [cur[i] EXCEPT !.status = "running"]
               IN  IF ct[t] = Absent THEN raised("notfound")
                   ELSE IF StartFails(ct[t], "none")
                   THEN [raised("start") EXCEPT !.ct = so.ct]
                   ELSE [envs |-> [cur EXCEPT ![i] = running],
                         ct |-> [so.ct EXCEPT ![t] = "running"], img |-> img,
                         err |-> "", ret |-> <<running>>, phase |-> "none"]
          [] OTHER ->
               LET i == FindIndex(call.arg, cur)
                   r == IF IsDeleted(cur[i])
                        THEN HardDelete(cur[i], cur, ct, img, NoFault)
                        ELSE PruneDeletedEnvironments(
                                 [cur EXCEPT ![i] = SoftDeleted(cur[i], now)],
                                 ct, img, MaxDeletedArg, NoFault)
               IN  [envs |-> r.envs, ct |-> r.ct, img |-> r.img, err |-> "",
                    ret |-> <<call.arg>>,
                    phase |-> IF IsDeleted(cur[i]) THEN "hard" ELSE "soft"]

\* Creations that have not provisioned their container yet.
PendingCreates ==
    Cardinality({p \in Procs : proc[p].op = "create"
                                  /\ proc[p].pc \in {"read", "reconcile", "work"}})

\* Process p calls an engine operation.
CallEngine(p, op, arg) ==
    /\ proc[p].pc = "idle"
    /\ op = "create" => nextId + PendingCreates <= MaxEnvs
    /\ proc' = [proc EXCEPT ![p] = Call(op, "none", "read", 0, arg, <<>>, "", <<>>)]
    /\ UNCHANGED <<EngineVars, settings_file, ws, lock>>

\* load_environments in p reads the registry file under the lock.
ReadRegistry(p) ==
    /\ proc[p].pc = "read"
    /\ proc' = [proc EXCEPT ![p] = [@ EXCEPT !.pc = "reconcile", !.cur = db]]
    /\ UNCHANGED <<EngineVars, settings_file, ws, lock>>

\* load_environments in p sets the status of every record it read from the
\* runtime and saves the list under the lock; a call of load_environments
\* returns it.
WriteBack(p) ==
    /\ proc[p].pc = "reconcile"
    /\ LET envs == Reconcile(proc[p].cur, containers)
       IN  /\ db' = envs
           /\ proc' = [proc EXCEPT ![p] =
                          IF proc[p].op = "load"
                          THEN [@ EXCEPT !.pc = "returned", !.cur = envs, !.ret = envs]
                          ELSE [@ EXCEPT !.pc = "work", !.cur = envs]]
    /\ UNCHANGED <<containers, images, nextId, clock, last, settings_file, ws, lock>>

\* p does the work of its operation on the runtime and on its own list.
Work(p) ==
    /\ proc[p].pc = "work"
    /\ LET r == EngineWork(proc[p], containers, images, nextId, clock + 1)
       IN  /\ r.phase = "soft" => clock < MaxClock
           /\ containers' = r.ct
           /\ images' = r.img
           /\ nextId' = IF proc[p].op = "create" /\ r.err = "" THEN nextId + 1
                        ELSE nextId
           /\ clock' = IF r.phase = "soft" THEN clock + 1 ELSE clock
           /\ proc' = [proc EXCEPT ![p] =
                          IF r.err # ""
                          THEN [@ EXCEPT !.pc = "returned", !.err = r.err]
                          ELSE [@ EXCEPT !.pc = "save", !.cur = r.envs,
                                         !.ret = r.ret, !.phase = r.phase]]
    /\ UNCHANGED <<db, last, settings_file, ws, lock>>

\* _save_environments in p writes its list under the lock, and p returns.
SaveRegistry(p) ==
    /\ proc[p].pc = "save"
    /\ db' = proc[p].cur
    /\ proc' = [proc EXCEPT ![p] = [@ EXCEPT !.pc = "returned"]]
    /\ UNCHANGED <<containers, images, nextId, clock, last, settings_file, ws, lock>>

\* A program that is none of the processes takes the lock file, and gives
\* it back.
OtherLocks ==
    /\ lock = Free
    /\ lock' = Other
    /\ UNCHANGED <<EngineVars, settings_file, ws, proc>>

OtherUnlocks ==
    /\ lock = Other
    /\ lock' = Free
    /\ UNCHANGED <<EngineVars, settings_file, ws, proc>>

\* ------------------------------------------- ConnectionManager operations
\* next() of the iterator over active_connections.values(): RuntimeError
\* when the size of the dict is not the size the iteration began with, else
\* the value of the next slot in use, or StopIteration.
IterNext(active_connections, it) ==
    LET rest == {i \in DOMAIN active_connections :
                    i >= it.pos /\ active_connections[i] # NoSocket}
        next == CHOOSE i \in rest : \A j \in rest : i <= j
    IN  IF Cardinality(Connections(active_connections)) # it.used
        THEN [outcome |-> "raised", value |-> NoSocket, it |-> it]
        ELSE IF rest = {}
        THEN [outcome |-> "stopped", value |-> NoSocket, it |-> it]
        ELSE [outcome |-> "value", value |-> active_connections[next],
              it |-> IteratorAt(next + 1, it.used)]

\* The for statement of broadcast takes the next connection and awaits its
\* send_json, or ends: the broadcast returns to notify_update and the loop of
\* monitor_docker_events goes on, or the RuntimeError of the iterator leaves
\* broadcast and notify_update and ends the loop in its except clause.
Advance(manager, n) ==
    CASE n.outcome = "value" ->
           [manager EXCEPT !.task = "sending", !.it = n.it, !.current = n.value,
                           !.sent = @ \cup {n.value}]
      [] n.outcome = "stopped" ->
           [manager EXCEPT !.task = "idle", !.it = n.it, !.current = NoSocket,
                           !.result = "returned"]
      [] OTHER ->
           [manager EXCEPT !.task = "idle", !.it = n.it, !.current = NoSocket,
                           !.result = "raised", !.monitoring = FALSE]

\* connect(websocket), after the accept: the key id(websocket) is new.
Connect(w) ==
    /\ w \notin Connections(ws.active_connections)
    /\ Len(ws.active_connections) < MaxSlots
    /\ ws' = [ws EXCEPT !.active_connections = Append(@, w)]
    /\ UNCHANGED <<EngineVars, settings_file, lock, proc>>

\* disconnect(websocket): active_connections.pop(id(websocket), None).
Disconnect(w) ==
    /\ w \in Connections(ws.active_connections)
    /\ ws' = [ws EXCEPT !.active_connections =
                            [i \in DOMAIN @ |-> IF @[i] = w THEN NoSocket ELSE @[i]],
                        !.stayed = @ \ {w}]
    /\ UNCHANGED <<EngineVars, settings_file, lock, proc>>

\* The event monitor receives a container event and notify_update calls
\* broadcast, which begins its iteration.
Broadcast ==
    /\ ws.monitoring /\ ws.task = "idle"
    /\ LET began == [ws EXCEPT !.stayed = Connections(ws.active_connections),
                               !.sent = {}, !.result = "none"]
           it == IteratorAt(1, Cardinality(Connections(ws.active_connections)))
       IN  ws' = Advance(began, IterNext(ws.active_connections, it))
    /\ UNCHANGED <<EngineVars, settings_file, lock, proc>>

\* The awaited send_json returns or raises (the exception is logged), and
\* the for statement goes on.
SendJson ==
    /\ ws.task = "sending"
    /\ ws' = Advance(ws, IterNext(ws.active_connections, ws.it))
    /\ UNCHANGED <<EngineVars, settings_file, lock, proc>>

\* The call in progress returns (or raises) to its caller; the engine serves
\* one call at a time.
ReturnToCaller ==
    /\ ~Ready
    /\ last' = Idle
    /\ UNCHANGED <<db, containers, images, nextId, clock, settings_file, ws, lock, proc>>

\* ------------------------------------------------------ out-of-band changes
\* The main process of a running container exits by itself.
ContainerExits(c) ==
    /\ Ready
    /\ containers[c] = "running"
    /\ containers' = [containers EXCEPT ![c] = "exited"]
    /\ UNCHANGED <<db, images, nextId, clock, last, settings_file, ws, lock, proc>>

\* A container is removed outside the engine (docker rm).
ContainerRemoved(c) ==
    /\ Ready
    /\ containers[c] # Absent
    /\ containers' = [containers EXCEPT ![c] = Absent]
    /\ UNCHANGED <<db, images, nextId, clock, last, settings_file, ws, lock, proc>>

\* A container the daemon tried and failed to remove is left in its "dead"
\* state.
ContainerDies(c) ==
    /\ Ready
    /\ containers[c] \in {"created", "exited"}
    /\ containers' = [containers EXCEPT ![c] = "dead"]
    /\ UNCHANGED <<db, images, nextId, clock, last, settings_file, ws, lock, proc>>

\* Outside the engine, the host directory of entry j of the i-th record's
\* mount_config is removed.
HostPathRemoved(i, j) ==
    /\ Ready
    /\ db[i].mounts[j].exists
    /\ db' = [db EXCEPT ![i].mounts[j].exists = FALSE]
    /\ UNCHANGED <<containers, images, nextId, clock, last, settings_file, ws, lock, proc>>

\* ------------------------------------------------------------- the inputs
\* Ids a caller can pass: those of the registry and one that it does not hold.
CallIds == Ids(db) \cup {UnknownId}

\* The container status an operation on env_id fetches after its load;
\* Absent also for an id the registry does not hold.
Fetched(env_id) ==
    IF HasEnv(env_id, db) THEN containers[Cid(env_id)] ELSE Absent

\* The other records activate_environment would stop.
RunningOthers(env_id) ==
    {Cid(e.id) : e \in {x \in Range(Reconcile(db, containers)) : IsOtherRunning(x, env_id)}}

\* The calls of each operation that can fail, given what it will find: a
\* fault is offered only where the operation makes the call.
ActivateFaults(env_id) ==
    {"none", "load"}
        \cup (IF Fetched(env_id) = Absent THEN {} ELSE {"get", "save"})
        \cup (IF Fetched(env_id) \in {"created", "exited"} THEN {"start"} ELSE {})
        \cup (IF Fetched(env_id) = "created" THEN {"copy"} ELSE {})
        \cup (IF Fetched(env_id) = "created" /\ Installed(NewStyleMounts(db[FindIndex(env_id, db)].mounts))
              THEN {"restart"} ELSE {})

\* Containers _stop_other_environments can find gone or fail to stop.
StopTargets(env_id, allow_multiple, fault) ==
    IF allow_multiple \/ fault \in {"load", "get"} \/ Fetched(env_id) = Absent
    THEN {NoCid}
    ELSE RunningOthers(env_id) \cup {NoCid}

DeactivateFaults(env_id) ==
    {"none", "load"}
        \cup (IF Fetched(env_id) = Absent THEN {} ELSE {"get"})
        \cup (IF NeedsStop(Fetched(env_id)) /\ Fetched(env_id) # Absent
              THEN {"stop", "save"} ELSE {})

\* Containers a delete_environment call on env_id stops and removes: the
\* target's when it is tagged, else those of the tagged records.
HardDeleteTargets(env_id) ==
    IF ~HasEnv(env_id, db) THEN {}
    ELSE IF IsDeleted(db[FindIndex(env_id, db)]) THEN {Cid(env_id)}
    ELSE {Cid(e.id) : e \in {x \in Range(db) : IsDeleted(x) \/ x.id = env_id}}

DeleteFaults(env_id) ==
    {NoFault, <<"load", NoCid>>}
        \cup (IF HasEnv(env_id, db) THEN {<<"save", NoCid>>} ELSE {})
        \cup ({"stop", "remove", "remove_dead"}
                 \X {c \in HardDeleteTargets(env_id) : containers[c] # Absent})
        \cup ({"image"} \X (HardDeleteTargets(env_id) \cap images))

UpdateFaults(env_id) ==
    {"none", "load"} \cup (IF HasEnv(env_id, db) THEN {"save"} ELSE {})

Updates == {[has |-> FALSE, folderIds |-> {}, name |-> NoName]}
               \cup {[has |-> TRUE, folderIds |-> f, name |-> NoName] : f \in SUBSET FolderTags}

DuplicateFaults(env_id) ==
    {"none", "load"}
        \cup (IF Fetched(env_id) \in {"running", "exited"}
              THEN {"commit", "create", "save"} ELSE {})

\* Running, stopping and duplicating environments; no folder tags.
NextLifecycle ==
    \/ ReturnToCaller
    \/ \E fault \in {"none", "load"} : LoadEnvironments("", fault)
    \/ \E fault \in {"none", "load", "image", "create", "save"} :
            CreateEnvironment(DefaultRequest, fault)
    \/ \E env_id \in CallIds, allow_multiple \in BOOLEAN :
         \E fault \in ActivateFaults(env_id) :
           \E gone \in StopTargets(env_id, allow_multiple, fault),
              bad \in StopTargets(env_id, allow_multiple, fault) :
                ActivateEnvironment(env_id, allow_multiple, gone, bad, fault)
    \/ \E env_id \in CallIds : \E fault \in DeactivateFaults(env_id) :
            DeactivateEnvironment(env_id, fault)
    \/ \E env_id \in CallIds : \E fault \in DuplicateFaults(env_id) :
            DuplicateEnvironment(env_id, DefaultRequest, fault)
    \/ \E c \in Cids : ContainerExits(c)
    \/ \E c \in Cids : ContainerRemoved(c)
    \/ \E c \in Cids : ContainerDies(c)

\* Tagging and untagging as deleted, soft and hard deletion, pruning.
TrashUpdates == {u \in Updates : u.has /\ u.folderIds \subseteq {DELETED_FOLDER_ID}}

NextTrash ==
    \/ ReturnToCaller
    \/ \E fault \in {"none", "load"} : LoadEnvironments("", fault)
    \/ \E fault \in {"none", "load", "image", "create", "save"} :
            CreateEnvironment(DefaultRequest, fault)
    \/ \E env_id \in CallIds, max_deleted \in 0..MaxDeletedArg :
         \E fault \in DeleteFaults(env_id) :
            DeleteEnvironment(env_id, max_deleted, fault)
    \/ \E env_id \in CallIds, update \in TrashUpdates :
         \E fault \in UpdateFaults(env_id) :
            UpdateEnvironment(env_id, update, fault)
    \/ \E c \in Cids : ContainerRemoved(c)

\* The folder listings over every combination of folder tags.
NextFolders ==
    \/ ReturnToCaller
    \/ \E f \in FolderArgs : LoadEnvironments(f, "none")
    \/ CreateEnvironment(DefaultRequest, "none")
    \/ \E env_id \in Ids(db), max_deleted \in 0..MaxDeletedArg :
            DeleteEnvironment(env_id, max_deleted, NoFault)
    \/ \E env_id \in Ids(db), update \in Updates :
            UpdateEnvironment(env_id, update, "none")

\* Pruning over a registry that earlier calls have filled: PruneEnvs records,
\* created or duplicated, tagged as deleted or not, with or without a
\* deletion time, their containers running.
PruneCids == 1..PruneEnvs

StoredRecord(c, dup, tagged, stamp, status) ==
    LET m == IF stamp = 0 THEN NoMetadata ELSE WithDeletedAt(NoMetadata, stamp)
        e == IF dup
             THEN DuplicateOf([metadata |-> m], DefaultRequest, c)
             ELSE [NewEnvironment(DefaultRequest, c) EXCEPT !.metadata = m]
    IN  [e EXCEPT !.folderIds = IF tagged THEN {DELETED_FOLDER_ID} ELSE {},
                  !.status = status]

\* time.time() has given each reading to one soft delete; a deletion time is
\* shared only with the duplicates made later of the record, which
\* duplicate_environment appends with the metadata of their source.
StampsAsWritten(dup, stamp) ==
    \A c \in PruneCids :
        (~dup[c] /\ stamp[c] # 0) =>
            \A d \in PruneCids \ {c} :
                stamp[d] = stamp[c] => (dup[d] /\ d > c)

InitPrune ==
    /\ \E dup \in [PruneCids -> BOOLEAN], tagged \in [PruneCids -> BOOLEAN],
          stamp \in [PruneCids -> 0..MaxStamp] :
          /\ StampsAsWritten(dup, stamp)
          /\ containers = [c \in PruneCids |-> "running"]
          /\ db = [c \in PruneCids |->
                      StoredRecord(c, dup[c], tagged[c], stamp[c], containers[c])]
          /\ images = {c \in PruneCids : dup[c]}
    /\ nextId = PruneEnvs + 1
    /\ clock = MaxStamp
    /\ last = Idle
    /\ ws = NoConnections
    /\ settings_file = Missing
    /\ lock = Free
    /\ proc = [p \in Procs |-> NoCall]

\* The runtime failures of the pruning runs: a stop or an image removal.
PruneFaults(env_id) ==
    {fault \in DeleteFaults(env_id) : fault[1] \in {"none", "stop", "image"}}

NextPrune ==
    \/ ReturnToCaller
    \/ \E env_id \in Ids(db), max_deleted \in 0..(PruneEnvs - 1) :
         \E fault \in PruneFaults(env_id) :
            DeleteEnvironment(env_id, max_deleted, fault)

\* Names within and beyond the limit, given at creation, duplication and
\* update, over the whole life of the records.
Names == {Label(MaxNameLength), Label(MaxNameLength + 1)}

RecordUpdates ==
    {[has |-> FALSE, folderIds |-> {}, name |-> n] : n \in Names \cup {NoName}}
        \cup {[has |-> TRUE, folderIds |-> f, name |-> NoName] : f \in {{}, {"f1"}}}
        \cup {[has |-> TRUE, folderIds |-> {"f1"}, name |-> Label(MaxNameLength)]}

NextRecords ==
    \/ ReturnToCaller
    \/ LoadEnvironments("", "none")
    \/ \E name \in Names : CreateEnvironment(Request(name, <<>>), "none")
    \/ \E env_id \in Ids(db), update \in RecordUpdates :
            UpdateEnvironment(env_id, update, "none")
    \/ \E env_id \in Ids(db) :
            ActivateEnvironment(env_id, FALSE, NoCid, NoCid, "none")
    \/ \E env_id \in Ids(db) : DeactivateEnvironment(env_id, "none")
    \/ \E env_id \in Ids(db), name \in Names :
            DuplicateEnvironment(env_id, Request(name, <<>>), "none")
    \/ \E env_id \in Ids(db) : DeleteEnvironment(env_id, MaxDeletedArg, NoFault)

\* One environment under every mount configuration of up to MaxMounts
\* entries, new-style or old-style, activated for the first time and again;
\* host directories may be removed between the calls.
MountTypes == MountActions \cup {"none"}

MountEntries ==
    {Mount(type, custom, exists) :
        type \in MountTypes, custom \in BOOLEAN, exists \in BOOLEAN}

OldMountEntries ==
    {OldMount(action, custom, exists) :
        action \in MountTypes, custom \in BOOLEAN, exists \in BOOLEAN}

MountConfigs == UNION {[1..n -> MountEntries] : n \in 0..MaxMounts}

OldMountConfigs == UNION {[1..n -> OldMountEntries] : n \in 1..MaxMounts}

NextMounts ==
    \/ ReturnToCaller
    \/ \E mounts \in MountConfigs :
         /\ db = <<>>
         /\ CreateEnvironment(Request(Label(MaxNameLength), mounts), "none")
    \/ \E mounts \in OldMountConfigs :
         /\ db = <<>>
         /\ CreateEnvironment(Request(Label(MaxNameLength), mounts), "none")
    \/ \E i \in DOMAIN db : \E j \in DOMAIN db[i].mounts : HostPathRemoved(i, j)
    \/ \E env_id \in Ids(db), allow_multiple \in BOOLEAN :
         \E fault \in ActivateFaults(env_id) :
            ActivateEnvironment(env_id, allow_multiple, NoCid, NoCid, fault)
    \/ \E env_id \in Ids(db) : DeactivateEnvironment(env_id, "none")

\* The installer on every custom_nodes of up to MaxNodes directories, with
\* at most one exec_run call failing.
Packages == {"torch", "numpy"}

CustomNodes == {CustomNode(m, r) : m \in BOOLEAN, r \in SUBSET Packages}

NodeLists == UNION {[1..n -> CustomNodes] : n \in 0..MaxNodes}

\* The failures of the calls the run makes.
ExecFaults(nodes) ==
    {NoExecFault}
        \cup {fault \in {ExecFault(i, ExecSteps[k], kind) :
                            i \in DOMAIN nodes, k \in DOMAIN ExecSteps,
                            kind \in {"exit", "raise"}} :
                <<fault.step, fault.dir>> \in Range(InstallNodes(nodes, 1, fault).calls)}

NextInstall ==
    \/ ReturnToCaller
    \/ \E nodes \in NodeLists : \E fault \in ExecFaults(nodes) :
            InstallCustomNodes(nodes, fault)

\* One process loads, saves every settings value and updates with every
\* choice of new values, from every kind of settings file, while another
\* program may hold the lock file.
TestPort == 8000
TestMaxDeleted == 5

FieldValues(k) ==
    CASE k = "comfyui_path" -> {default_comfyui_path, Str(Text("/my/path"))}
      [] k = "port" -> {Number(DefaultPort), Number(TestPort)}
      [] k = "runtime" -> {Str(Text("nvidia")), Str(Text("cpu"))}
      [] k = "command" -> {Str(Text("")), Str(Text("run"))}
      [] k = "folders" ->
           {List(<<>>), List(<<Folder(Str(Text("folder1")), Str(Text("Folder One")))>>)}
      [] k = "max_deleted_environments" ->
           {Number(DefaultMaxDeleted), Number(TestMaxDeleted)}
      [] OTHER -> {Str(Text(""))}

\* The UserSettings instances the constructor makes from these values.
ValidSettings ==
    {[comfyui_path |-> path, port |-> port, runtime |-> runtime, command |-> command,
      folders |-> folders, max_deleted_environments |-> max_deleted,
      last_used_image |-> image] :
        path \in FieldValues("comfyui_path"), port \in FieldValues("port"),
        runtime \in FieldValues("runtime"), command \in FieldValues("command"),
        folders \in FieldValues("folders"),
        max_deleted \in FieldValues("max_deleted_environments"),
        image \in FieldValues("last_used_image")}

\* The value of field k that is not its default.
NewValue(k) == CHOOSE v \in FieldValues(k) : v # FieldDefault(k) /\ v # default_comfyui_path

UpdateKeys == FieldNames \ {"last_used_image"}

\* new_settings with a value of the field's type for every key it has.
TypedUpdates == {[k \in K |-> NewValue(k)] : K \in SUBSET UpdateKeys}

\* new_settings with a value that is not of the field's type: a port as a
\* string of digits or of letters.
UntypedUpdates == {[port |-> Str(Digits(TestPort))], [port |-> Str(Text("abc"))]}

\* Settings files as a user or an older version left them.
InvalidFiles ==
    {Garbage, JsonText(List(<<>>)),
     JsonText(Dict([port |-> Number(TestPort)])),
     JsonText(Dict([comfyui_path |-> default_comfyui_path, port |-> Str(Text("abc"))])),
     JsonText(Dict([comfyui_path |-> Number(TestPort)]))}

InitialFiles ==
    {Missing, Directory} \cup InvalidFiles
        \cup {JsonText(Dict([comfyui_path |-> Str(Text("/my/path"))])),
              JsonText(Dict([comfyui_path |-> Str(Text("/my/path")),
                             port |-> Str(Digits(TestPort)),
                             theme |-> Str(Text("dark"))]))}

Caller == 1

InitSettings ==
    /\ db = <<>>
    /\ containers = [c \in Cids |-> Absent]
    /\ images = {}
    /\ nextId = 1
    /\ clock = 0
    /\ last = Idle
    /\ ws = NoConnections
    /\ settings_file \in InitialFiles
    /\ lock = Free
    /\ proc = [p \in Procs |-> NoCall]

NextSettings ==
    \/ CallSettings(Caller, "load", <<>>)
    \/ \E settings \in ValidSettings : CallSettings(Caller, "save", settings)
    \/ \E new_settings \in TypedUpdates \cup UntypedUpdates :
            CallSettings(Caller, "update", new_settings)
    \/ AcquireLock(Caller)
    \/ WaitForLock(Caller)
    \/ LockTimesOut(Caller)
    \/ LoadBody(Caller)
    \/ SaveBody(Caller)
    \/ ReturnSettings(Caller)
    \/ OtherLocks
    \/ OtherUnlocks

\* One caller creates and renames folders in a settings object that comes
\* from a file or an update: the names of its folders are pairwise distinct,
\* of any length, and the ids are any strings.
FolderNames == {Str(Label(n)) : n \in {1, MaxNameLength, MaxNameLength + 1}}

FolderIdStrings == {Str(Digits(n)) : n \in 1..MaxFolders}

FolderLists ==
    {fs \in UNION {[1..n -> {Folder(id, name) : id \in FolderIdStrings,
                                                name \in FolderNames}]
                     : n \in 0..(MaxFolders - 1)} :
        \A i, j \in DOMAIN fs : FolderName(fs[i]) = FolderName(fs[j]) => i = j}

\* str(uuid.uuid4()): an id no folder of the settings has.
FreshFolderId(settings) ==
    CHOOSE id \in FolderIdStrings :
        \A i \in DOMAIN Folders(settings) : FolderId(Folders(settings)[i]) # id

InitFolderNames ==
    /\ db = <<>>
    /\ containers = [c \in Cids |-> Absent]
    /\ images = {}
    /\ nextId = 1
    /\ clock = 0
    /\ last = Idle
    /\ ws = NoConnections
    /\ settings_file = Missing
    /\ lock = Free
    /\ \E folders \in FolderLists :
         proc = [p \in Procs |->
                   IF p = Caller
                   THEN Call("none", "none", "idle", 0, <<>>,
                             <<ModelCopy(UserSettings([comfyui_path |-> default_comfyui_path])[1],
                                         [folders |-> List(folders)])>>, "", <<>>)
                   ELSE NoCall]

NextFolderNames ==
    \/ \E folder_name \in FolderNames :
         CreateFolderCall(Caller, folder_name, FreshFolderId(proc[Caller].cur[1]))
    \/ \E folder_id \in FolderIdStrings, new_name \in FolderNames :
         UpdateFolderCall(Caller, folder_id, new_name)

\* WebSocket clients connect and disconnect at any time, also while a
\* broadcast awaits a send.
Sockets == 1..MaxSockets

NextConnections ==
    \/ \E w \in Sockets : Connect(w)
    \/ \E w \in Sockets : Disconnect(w)
    \/ Broadcast
    \/ SendJson

\* Every process creates, activates, deletes and lists environments at any
\* time, each call interleaved step by step with those of the others.
EngineCalls ==
    {<<"load", UnknownId>>, <<"create", DefaultRequest>>}
        \cup ({"activate", "delete"} \X Ids(db))

NextConcurrent ==
    \/ \E p \in Procs, call \in EngineCalls : CallEngine(p, call[1], call[2])
    \/ \E p \in Procs : ReadRegistry(p)
    \/ \E p \in Procs : WriteBack(p)
    \/ \E p \in Procs : Work(p)
    \/ \E p \in Procs : SaveRegistry(p)
    \/ \E p \in Procs : ReturnSettings(p)

\* Every process loads, saves and updates at any time, while another program
\* may hold the lock file for as long as it likes.
LockedCalls ==
    {<<"load", <<>>>>,
     <<"save", UserSettings([comfyui_path |-> default_comfyui_path])[1]>>,
     <<"update", [port |-> Number(TestPort)]>>}

NextLock ==
    \/ \E p \in Procs, call \in LockedCalls : CallSettings(p, call[1], call[2])
    \/ \E p \in Procs : AcquireLock(p)
    \/ \E p \in Procs : WaitForLock(p)
    \/ \E p \in Procs : LockTimesOut(p)
    \/ \E p \in Procs : LoadBody(p)
    \/ \E p \in Procs : SaveBody(p)
    \/ \E p \in Procs : ReturnSettings(p)
    \/ OtherLocks
    \/ OtherUnlocks

\* The loop of FileLock.acquire keeps polling, and the body of a with block
\* runs to its end.
LockFairness ==
    \A p \in Procs :
        /\ WF_vars(AcquireLock(p) \/ WaitForLock(p) \/ LockTimesOut(p))
        /\ WF_vars(LoadBody(p) \/ SaveBody(p))

Spec == Init /\ [][NextLifecycle]_vars

SpecMounts == Init /\ [][NextMounts]_vars

SpecRecords == Init /\ [][NextRecords]_vars

SpecPrune == InitPrune /\ [][NextPrune]_vars

SpecTrash == Init /\ [][NextTrash]_vars

SpecFolders == Init /\ [][NextFolders]_vars

SpecInstall == Init /\ [][NextInstall]_vars

SpecSettings == InitSettings /\ [][NextSettings]_vars

SpecLock == Init /\ [][NextLock]_vars /\ LockFairness

SpecFolderNames == InitFolderNames /\ [][NextFolderNames]_vars

SpecConnections == Init /\ [][NextConnections]_vars

SpecConcurrent == Init /\ [][NextConcurrent]_vars

\* ================================================================= claims
\* The record of the registry envs with the id.
Record(env_id, envs) == envs[FindIndex(env_id, envs)]

\* The step is a call of op that got past its load.
Calls(op) == Ready /\ last'.op = op /\ last'.err # "load"

\* ------------------------------------------------------------ Spec claims
\* C1: after activate_environment(env_id, allow_multiple=False) has returned
\* successfully, the only record of the persisted registry with status
\* "running" is the target (stated where every container is still there, so
\* that no stop was skipped).
C1_OnlyTargetRunning ==
    (/\ last.op = "activate" /\ last.ok /\ ~last.multi
     /\ \A i \in DOMAIN db : containers[Cid(db[i].id)] # Absent) =>
        \A i \in DOMAIN db : db[i].status = "running" => db[i].id = last.id

\* C2 as stated: a record returned by load_environments has status "dead"
\* if and only if its container is absent.
C2_DeadIffAbsent ==
    (last.op = "load" /\ last.ok) =>
        \A i \in DOMAIN last.ret :
            last.ret[i].status = "dead" <=> containers[Cid(last.ret[i].id)] = Absent

\* C2 amended: a record returned by load_environments has status "dead" if
\* and only if its container is absent or the runtime reports the container
\* itself as "dead"; the record of an existing container has exactly the
\* status the runtime reports.
C2_DeadIffAbsentOrRuntimeDead ==
    (last.op = "load" /\ last.ok) =>
        \A i \in DOMAIN last.ret :
            LET e == last.ret[i]
                s == containers[Cid(e.id)]
            IN  /\ e.status = "dead" <=> s \in {Absent, "dead"}
                /\ s # Absent => e.status = s

\* A load returned one record of a missing container and one of a container
\* the runtime reports as dead.
C2_Witness ==
    /\ last.op = "load" /\ last.ok
    /\ \E i, j \in DOMAIN last.ret :
          /\ containers[Cid(last.ret[i].id)] = Absent
          /\ containers[Cid(last.ret[j].id)] = "dead"
          /\ last.ret[i].status = "dead" /\ last.ret[j].status = "dead"

\* C5: duplicate_environment on a source whose reconciled status is "created"
\* raises, and the registry holds the same records, no image is committed and
\* no container is provisioned.
C5_CreatedSourceNotDuplicated ==
    [][(/\ Calls("duplicate")
        /\ HasEnv(last'.id, db)
        /\ ReconciledStatus(containers, Record(last'.id, db)) = "created")
       => /\ ~last'.ok
          /\ Ids(db') = Ids(db) /\ Len(db') = Len(db)
          /\ images' = images
          /\ containers' = containers
          /\ nextId' = nextId]_vars

\* duplicate_environment has refused a source that was never activated.
C5_Witness ==
    /\ last.op = "duplicate" /\ last.err = "created"
    /\ Record(last.id, db).status = "created"

\* C6: the status of every record of the persisted registry is one of
\* created, running, stopped, dead.
C6_StatusDomain ==
    \A i \in DOMAIN db : db[i].status \in {"created", "running", "stopped", "dead"}

\* C9: deactivate_environment on a running environment returns and persists
\* the status "stopped", and a later load_environments of a record it left
\* "stopped", its container still as the stop left it, keeps "stopped".
C9_StaysStopped ==
    [][/\ (/\ Calls("deactivate") /\ last'.ok
           /\ HasEnv(last'.id, db)
           /\ containers[Cid(last'.id)] = "running")
          => /\ last'.ret[1].status = "stopped"
             /\ Record(last'.id, db').status = "stopped"
       /\ (Calls("load") /\ last'.ok)
          => \A i \in DOMAIN db :
                (db[i].status = "stopped" /\ containers[Cid(db[i].id)] = "exited")
                    => db'[i].status = "stopped"]_vars

\* C10: deactivate_environment on an environment whose reconciled status is
\* stopped, dead or created returns without raising, calls no stop and
\* leaves the registry as the load reconciled it.
C10_DeactivateStoppedIsNoOp ==
    [][(/\ Calls("deactivate")
        /\ last'.err # "get"
        /\ HasEnv(last'.id, db)
        /\ ReconciledStatus(containers, Record(last'.id, db))
              \in {"stopped", "dead", "created"})
       => /\ last'.ok
          /\ last'.stops = {}
          /\ last'.ret = <<Record(last'.id, Reconcile(db, containers))>>
          /\ db' = Reconcile(db, containers)
          /\ containers' = containers]_vars

\* ------------------------------------------------------- SpecTrash claims
\* The step is a delete_environment call that found its target, tagged as
\* deleted or not.
DeletesTagged == Calls("delete") /\ HasEnv(last'.id, db) /\ IsDeleted(Record(last'.id, db))

DeletesUntagged == Calls("delete") /\ HasEnv(last'.id, db) /\ ~IsDeleted(Record(last'.id, db))

\* C3: after delete_environment(env_id, max_deleted=M) has soft-deleted an
\* environment and returned successfully, at most M records of the persisted
\* registry carry the deleted tag.
C3_AtMostMaxDeleted ==
    [][(DeletesUntagged /\ last'.ok) => Len(DeletedEnvs(db')) <= last'.maxd]_vars

\* A soft delete with max_deleted >= 1 has pruned an older deleted record,
\* stopping its container, and left exactly max_deleted tagged records, the
\* target among them.
C3_Witness ==
    /\ last.op = "delete" /\ last.ok /\ last.maxd >= 1
    /\ HasEnv(last.id, db) /\ IsDeleted(Record(last.id, db))
    /\ last.stops # {}
    /\ Len(DeletedEnvs(db)) = last.maxd

\* C4: delete_environment on a record already tagged as deleted removes the
\* record from the persisted registry whatever the stop, the remove and the
\* image removal do (the registry itself being readable and writable).
C4_TaggedAlwaysRemoved ==
    [][(DeletesTagged /\ last'.err # "save") => ~HasEnv(last'.id, db')]_vars

\* C7 as stated: with max_deleted >= 1, only a delete_environment call on a
\* record's own id, finding it tagged, removes the record.
C7_OnlyOwnDeleteRemoves ==
    [][\A id \in Ids(db) \ Ids(db') :
          (last'.op = "delete" /\ last'.maxd >= 1) =>
              last'.id = id /\ IsDeleted(Record(id, db))]_vars

\* C7 amended: a successful delete_environment(id) with max_deleted >= 1 on
\* an untagged record leaves it in the registry, tagged; a successful
\* delete_environment(id) on a tagged record removes it; a record leaves the
\* registry only in a successful delete_environment call, either the one on
\* its own id or, being tagged, as a record pruned by the soft delete of
\* another; ids are never reused, so a removed record is never listed again.
C7_TwoStepOrPruned ==
    [][/\ (DeletesUntagged /\ last'.ok /\ last'.maxd >= 1)
          => HasEnv(last'.id, db') /\ IsDeleted(Record(last'.id, db'))
       /\ (DeletesTagged /\ last'.ok) => ~HasEnv(last'.id, db')
       /\ \A id \in Ids(db) \ Ids(db') :
             /\ last'.op = "delete" /\ last'.ok
             /\ \/ id = last'.id /\ (IsDeleted(Record(id, db)) \/ last'.maxd = 0)
                \/ id # last'.id /\ IsDeleted(Record(id, db)) /\ DeletesUntagged
       /\ \A id \in Ids(db) : Cid(id) < nextId
       /\ \A id \in Ids(db') \ Ids(db) : Cid(id) = nextId /\ nextId' > nextId]_vars

\* A delete_environment(id) on a tagged record, after some soft delete, has
\* removed the record and its container.
C7_Witness ==
    /\ last.op = "delete" /\ last.ok /\ last.maxd >= 1
    /\ ~HasEnv(last.id, db)
    /\ last.stops = {Cid(last.id)}
    /\ clock >= 1

\* ----------------------------------------------------- SpecFolders claims
\* C8: a record carrying the deleted tag is not returned by
\* load_environments(folder_id=F) for any folder F, whatever other tags it
\* carries (F None being the query that includes the deleted ones, and F the
\* reserved tag itself left aside).
C8_DeletedNeverListedByFolder ==
    (last.op = "load" /\ last.ok /\ last.folder \notin {"", DELETED_FOLDER_ID}) =>
        \A i \in DOMAIN last.ret : ~IsDeleted(last.ret[i])

\* ------------------------------------------------------- SpecPrune claims
\* The records carrying the deleted tag once the target of the soft delete in
\* this step is marked, and the sort key of each: the new reading of
\* time.time() for the target.
MarkedIds == {id \in Ids(db) : id = last'.id \/ IsDeleted(Record(id, db))}

MarkedKey(id) == IF id = last'.id THEN clock' ELSE DeletedAtKey(Record(id, db))

\* id is pruned before other: it is older, or as old and earlier in the
\* registry.
Before(id, other) ==
    \/ MarkedKey(id) < MarkedKey(other)
    \/ MarkedKey(id) = MarkedKey(other) /\ FindIndex(id, db) < FindIndex(other, db)

\* C11: when a soft delete prunes k records, they are tagged records, k is
\* the excess over max_deleted, and each of them comes before every surviving
\* tagged record in the order by deletion timestamp, ties in registry order.
C11_OldestFirstStable ==
    [][(DeletesUntagged /\ last'.ok) =>
        LET pruned == Ids(db) \ Ids(db')
            kept == MarkedIds \ pruned
        IN  /\ pruned \subseteq MarkedIds
            /\ Cardinality(kept) = IF Cardinality(MarkedIds) > last'.maxd
                                   THEN last'.maxd ELSE Cardinality(MarkedIds)
            /\ \A p \in pruned, k \in kept : Before(p, k)]_vars

\* A soft delete has pruned one record, stopping its container, and has left
\* the target and one more tagged record.
C11_Witness ==
    /\ last.op = "delete" /\ last.ok /\ last.stops # {}
    /\ HasEnv(last.id, db) /\ IsDeleted(Record(last.id, db))
    /\ Len(db) = PruneEnvs - 1
    /\ \E i \in DOMAIN db : db[i].id # last.id /\ IsDeleted(db[i])

\* C12: a runtime error while hard-deleting one record during pruning aborts
\* neither the pruning of the others nor the soft delete: the target is
\* persisted with the deleted tag and at most the record that failed stays
\* beyond max_deleted.
C12_PruneFailureTolerated ==
    [][(DeletesUntagged /\ last'.maxd >= 1 /\ last'.err # "save") =>
        /\ HasEnv(last'.id, db') /\ IsDeleted(Record(last'.id, db'))
        /\ Len(DeletedEnvs(db')) <= last'.maxd + 1]_vars

\* --------------------------------------------------- further Spec claims
\* C13: in activate_environment with allow_multiple=False, a failure to
\* stop another running environment (container gone, or stop_container
\* raising) does not block the start of the target: the call returns and the
\* target runs, so recorded and in the runtime.
C13_StopFailureDoesNotBlock ==
    [][(/\ Calls("activate") /\ ~last'.multi
        /\ HasEnv(last'.id, db)
        /\ last'.err \in {"", "stop"})
       => /\ last'.ok
          /\ Record(last'.id, db').status = "running"
          /\ containers'[Cid(last'.id)] = "running"]_vars

\* C14: duplicate_environment on a source whose reconciled status is not
\* "running" (created, exited after a stop, dead for a missing container)
\* adds no record, commits no image and provisions no container.
C14_DuplicateOnlyWhenRunning ==
    [][(/\ Calls("duplicate")
        /\ HasEnv(last'.id, db)
        /\ ReconciledStatus(containers, Record(last'.id, db)) # "running"
        /\ containers[Cid(last'.id)] # "dead")
       => /\ Ids(db') = Ids(db)
          /\ images' = images
          /\ containers' = containers]_vars

\* C15: a delete_environment call that returns has called remove_image on
\* exactly the images of the duplicate records it removed, by the second
\* delete or by pruning, and on the image of no other record; a remove_image
\* that fails is never the error of the call.
C15_ImageRemovedIffDuplicate ==
    [][Calls("delete") =>
        LET removed == Ids(db) \ Ids(db')
        IN  /\ last'.err # "image"
            /\ last'.ok =>
                 last'.rmi = {Record(id, db).image :
                                 id \in {x \in removed : Record(x, db).duplicate}}
            /\ \A id \in Ids(db) :
                 Record(id, db).image \in last'.rmi => Record(id, db).duplicate]_vars

\* A delete_environment call has removed the record of a duplicate although
\* the removal of its image failed: the image is still there.
C15_Witness ==
    /\ last.op = "delete" /\ last.ok
    /\ \E c \in images :
          /\ CloneImage(c) \in last.rmi
          /\ \A i \in DOMAIN db : db[i].image # CloneImage(c)

\* C16: the record a successful duplicate_environment returns has as id the
\* identifier the runtime gave the new container (not the generated name),
\* is flagged duplicate, has status "created" and the private image
\* committed for it.
C16_DuplicateIdIsContainerId ==
    (last.op = "duplicate" /\ last.ok) =>
        LET e == last.ret[1]
        IN  /\ e.id = <<"id", Cid(e.id)>>
            /\ e.id # e.container_name
            /\ e.duplicate
            /\ e.status = "created"
            /\ e.image = CloneImage(Cid(e.id))

\* C17: a successful create_environment returns a record with status
\* "created" and the identifier of the container it provisioned, which
\* exists and has not been started, and persists the record; every
\* load_environments without a folder returns all the persisted records, so a
\* later one returns a record with that id.
C17_CreatedAndListed ==
    [][/\ (Calls("create") /\ last'.ok) =>
            LET e == last'.ret[1]
            IN  /\ e.status = "created"
                /\ e.id # NoName /\ e.id = <<"id", nextId>>
                /\ containers[nextId] = Absent /\ containers'[nextId] = "created"
                /\ HasEnv(e.id, db')
       /\ (Calls("load") /\ last'.ok /\ last'.folder = "") =>
            /\ Ids(last'.ret) = Ids(db)
            /\ last'.ret = db']_vars

\* A load_environments has returned the record of a created environment
\* whose container exists and was never started.
C17_Witness ==
    /\ last.op = "load" /\ last.ok
    /\ \E i \in DOMAIN last.ret :
          /\ last.ret[i].status = "created"
          /\ last.ret[i].id = <<"id", Cid(last.ret[i].id)>>
          /\ containers[Cid(last.ret[i].id)] = "created"

\* ----------------------------------------------------- SpecRecords claims
\* C18: the name of every record of the persisted registry has at most 128
\* characters.
C18_NamesWithinLimit ==
    \A i \in DOMAIN db : NameLength(db[i].name) <= MaxNameLength

\* C19: a record that stays in the registry keeps its id, its image and its
\* container_name through every operation, and leaves the registry only in a
\* delete_environment call.
C19_IdentityFrame ==
    [][/\ \A id \in Ids(db) \cap Ids(db') :
            /\ Record(id, db').image = Record(id, db).image
            /\ Record(id, db').container_name = Record(id, db).container_name
       /\ \A i \in DOMAIN db, j \in DOMAIN db' :
            db'[j].container_name = db[i].container_name => db'[j].id = db[i].id
       /\ Ids(db) \subseteq Ids(db') \/ last'.op = "delete"]_vars

\* update_environment has renamed a record now tagged as deleted, whose
\* container has run, and a duplicate of some record is in the registry.
C19_Witness ==
    /\ last.op = "update" /\ last.ok
    /\ last.ret[1].name = Label(MaxNameLength + 1)
    /\ last.ret[1].container_name = ContainerName(Cid(last.id))
    /\ IsDeleted(Record(last.id, db))
    /\ containers[Cid(last.id)] = "exited"
    /\ \E i \in DOMAIN db : db[i].duplicate

\* ------------------------------------------------------ SpecMounts claims
\* The number of restart_container calls in the calls of an activation.
Restarts(calls) == Cardinality({i \in DOMAIN calls : calls[i] = "restart"})

\* The step is a successful activate_environment of an environment whose
\* reconciled status is "created".
FirstActivation ==
    /\ Calls("activate") /\ last'.ok
    /\ HasEnv(last'.id, db)
    /\ containers[Cid(last'.id)] = "created"

\* The activation restarted the container exactly once, after every copy and
\* installer run, and left the environment running.
RestartedOnceAtEnd ==
    /\ Restarts(last'.calls) = 1
    /\ last'.calls[Len(last'.calls)] = "restart"
    /\ last'.ret[1].status = "running"
    /\ containers'[Cid(last'.id)] = "running"

\* C20 as stated: a first activation of an environment with at least one
\* copy-type entry on the custom-content path restarts the container exactly
\* once, after all copies and installer runs, and ends running.
C20_RestartOnceForCopyEntry ==
    [][(/\ FirstActivation
        /\ ~IsOldStyle(Record(last'.id, db).mounts)
        /\ \E i \in DOMAIN Record(last'.id, db).mounts :
              LET m == Record(last'.id, db).mounts[i]
              IN  m.type = "copy" /\ m.custom)
       => RestartedOnceAtEnd]_vars

\* C20 amended: a first activation of an environment with at least one
\* copy-type entry on the custom-content path whose host path exists
\* restarts the container exactly once, after all copies and installer runs,
\* however many such entries there are, and ends running; no activation
\* restarts more than once.
C20_RestartOnceForCopiedEntry ==
    [][/\ (/\ FirstActivation
           /\ ~IsOldStyle(Record(last'.id, db).mounts)
           /\ \E i \in DOMAIN Record(last'.id, db).mounts :
                 LET m == Record(last'.id, db).mounts[i]
                 IN  m.type = "copy" /\ m.custom /\ m.exists)
          => RestartedOnceAtEnd
       /\ Calls("activate") => Restarts(last'.calls) <= 1]_vars

\* A first activation has copied two entries to the custom-content path, run
\* the installer after each, and restarted once at the end.
C20_Witness ==
    /\ last.op = "activate" /\ last.ok
    /\ last.calls = <<"start", "copy", "install", "copy", "install", "restart">>
    /\ Record(last.id, db).status = "running"

\* The new-style configuration an old-style one stands for: each entry with
\* the type its action names.
SameIntent(old_config) ==
    LET kept == SelectSeq(old_config, IsMountAction)
    IN  [i \in DOMAIN kept |-> Mount(kept[i].action, kept[i].custom, kept[i].exists)]

\* The runtime calls of a first activation under the new-style mounts.
FirstActivationCalls(mounts) ==
    <<"start">> \o CopyDirectories(mounts)
        \o (IF Installed(mounts) THEN <<"restart">> ELSE <<>>)

\* C21: an old-style mount configuration is converted with the type of each
\* entry preserved, so the first activation of an environment with an
\* old-style configuration makes the calls it makes for the new-style
\* configuration of the same intent: a copy for every old-style copy entry.
C21_LegacyTypePreserved ==
    [][(FirstActivation /\ IsOldStyle(Record(last'.id, db).mounts))
       => LET old_config == Record(last'.id, db).mounts
          IN  /\ NewStyleMounts(old_config) = SameIntent(old_config)
              /\ last'.calls = FirstActivationCalls(SameIntent(old_config))]_vars

IsTypeMount(mount) == mount.type = "mount"

\* C22: the bind mounts create_container is called with are exactly the
\* entries of type mount of the mount configuration, in their order; an
\* entry of type copy produces no bind mount.
C22_BindsAreMountEntries ==
    (last.op = "create" /\ last.ok /\ ~IsOldStyle(last.mounts))
        => last.binds = SelectSeq(last.ret[1].mounts, IsTypeMount)

\* Entry i of the new-style configuration is a copy entry whose host path
\* does not exist.
MissingCopySource(mounts, i) == mounts[i].type = "copy" /\ ~mounts[i].exists

\* C29: a copy entry whose host path does not exist is skipped throughout:
\* create_environment leaves the host path of such an entry missing, and a
\* first activation makes exactly the calls of the configuration without
\* the entries whose source is missing, and returns.
C29_MissingCopySourceSkipped ==
    [][/\ (Calls("create") /\ last'.ok /\ ~IsOldStyle(last'.mounts))
          => \A i \in DOMAIN last'.mounts :
                MissingCopySource(last'.mounts, i)
                    => MissingCopySource(Record(last'.id, db').mounts, i)
       /\ (FirstActivation /\ ~IsOldStyle(Record(last'.id, db).mounts))
          => LET mounts == Record(last'.id, db).mounts
                 present == {i \in DOMAIN mounts : ~MissingCopySource(mounts, i)}
                 kept == [i \in DOMAIN mounts |->
                            IF i \in present THEN mounts[i]
                            ELSE Mount("none", mounts[i].custom, FALSE)]
             IN  last'.calls = FirstActivationCalls(kept)]_vars

\* C30: a first activation of an environment whose mount configuration has
\* only entries of type mount, one on the custom-content path included,
\* runs no installer and restarts nothing.
C30_NoInstallerForMountEntries ==
    [][(/\ FirstActivation
        /\ ~IsOldStyle(Record(last'.id, db).mounts)
        /\ \A i \in DOMAIN Record(last'.id, db).mounts :
              Record(last'.id, db).mounts[i].type = "mount")
       => /\ "install" \notin Range(last'.calls)
          /\ Restarts(last'.calls) = 0]_vars

\* ----------------------------------------------------- SpecInstall claims
\* The directories the installer made its manifest check for.
Checked == {i \in DOMAIN last.ret : <<"check", i>> \in Range(last.calls)}

\* C24: when an exec_run call fails while the installer processes one
\* directory, whichever the call and whether the command exits non-zero or
\* the call raises, the installer still processes every remaining directory
\* and returns without raising.
C24_InstallerToleratesFailures ==
    (last.op = "install" /\ last.fault # NoExecFault)
        => /\ last.ok
           /\ Checked = DOMAIN last.ret

\* ---------------------------------------------------- SpecSettings claims
\* The step ends the call of p: it returns or raises to its caller.
Returns(p) == proc[p].pc # "returned" /\ proc'[p].pc = "returned"

\* The text save writes for the settings.
Saved(settings) == JsonText(Dict(ModelDump(settings)))

\* C25: a save of valid settings leaves a file from which load returns
\* settings equal to the saved ones in every field, and a load from the file
\* a save of valid settings wrote returns those settings.
C25_SaveLoadRoundTrip ==
    [][\A p \in Procs :
        /\ (proc[p].op = "save" /\ Returns(p) /\ proc'[p].err = "")
              => LoadFile(settings_file') = [err |-> "", ret |-> <<proc[p].arg>>]
        /\ \A settings \in ValidSettings :
              (/\ proc[p].op = "load" /\ proc[p].pc = "locked" /\ Returns(p)
               /\ settings_file = Saved(settings))
                 => proc'[p].err = "" /\ proc'[p].ret = <<settings>>]_vars

\* A load has returned settings with a folder and no field at its default,
\* from the file a save of them leaves.
C25_Witness ==
    /\ proc[Caller].op = "load" /\ proc[Caller].pc = "returned"
    /\ proc[Caller].err = ""
    /\ \A k \in UpdateKeys : proc[Caller].ret[1][k] = NewValue(k)
    /\ Len(proc[Caller].ret[1].folders[2]) = 1
    /\ settings_file = Saved(proc[Caller].ret[1])

\* C26: an update that returns gives settings in which every key of
\* new_settings has the new value and every other field the value load
\* returned, and a load after it returns the same settings.
C26_UpdateReturnsWhatLoadReturns ==
    [][\A p \in Procs :
        (proc[p].op = "update" /\ Returns(p) /\ proc'[p].err = "")
           => LET updated == proc'[p].ret[1]
                  stored == LoadFile(settings_file).ret[1]
              IN  /\ \A k \in FieldNames :
                        updated[k] = IF k \in DOMAIN proc[p].arg THEN proc[p].arg[k]
                                     ELSE stored[k]
                  /\ LoadFile(settings_file') = [err |-> "", ret |-> <<updated>>]]_vars

\* The default settings: the supplied comfyui_path, port 8188, runtime
\* nvidia, no command, no folders, 10 deleted environments kept.
DefaultSettings ==
    [comfyui_path |-> default_comfyui_path, port |-> Number(DefaultPort),
     runtime |-> Str(Text("nvidia")), command |-> Str(Text("")),
     folders |-> List(<<>>), max_deleted_environments |-> Number(DefaultMaxDeleted),
     last_used_image |-> Str(Text(""))]

\* The step ends a load of p made while no settings file exists.
LoadsMissing(p) == proc[p].op = "load" /\ settings_file = Missing /\ Returns(p)

\* C27 as stated: a load made while no settings file exists returns the
\* default settings without raising, and does not create the file.
C27_DefaultsWithoutRaising ==
    [][\A p \in Procs :
        LoadsMissing(p)
           => /\ proc'[p].err = "" /\ proc'[p].ret = <<DefaultSettings>>
              /\ settings_file' = Missing]_vars

\* C27 amended: a load made while no settings file exists does not create
\* the file; when it gets the lock it returns the default settings without
\* raising, and when the lock times out it raises.
C27_DefaultsWhenLockAcquired ==
    [][\A p \in Procs :
        LoadsMissing(p)
           => /\ settings_file' = Missing
              /\ IF proc[p].pc = "locked"
                 THEN proc'[p].err = "" /\ proc'[p].ret = <<DefaultSettings>>
                 ELSE proc'[p].err = "lock" /\ proc'[p].ret = <<>>]_vars

\* A load has returned the default settings and there is still no file.
C27_Witness ==
    /\ proc[Caller].op = "load" /\ proc[Caller].pc = "returned"
    /\ proc[Caller].err = "" /\ proc[Caller].ret = <<DefaultSettings>>
    /\ settings_file = Missing

\* The file holds a text that does not parse, or JSON that is no dict of
\* valid settings.
InvalidContent(file) ==
    \/ file = Garbage
    \/ /\ file[1] = "json"
       /\ (file[2][1] # "dict" \/ UserSettings(file[2][2]) = <<>>)

\* C28: a load from a settings file whose content is not valid raises
\* UserSettingsError, returns nothing, leaves the file as it was and does not
\* hold the lock afterwards.
C28_InvalidFileRaises ==
    [][\A p \in Procs :
        (proc[p].op = "load" /\ InvalidContent(settings_file) /\ Returns(p))
           => /\ proc'[p].err # "" /\ proc'[p].ret = <<>>
              /\ settings_file' = settings_file
              /\ lock' # p]_vars

\* A load has read a file that does not parse under the lock, raised, and
\* released the lock.
C28_Witness ==
    /\ proc[Caller].op = "load" /\ proc[Caller].pc = "returned"
    /\ proc[Caller].err = "format" /\ settings_file = Garbage
    /\ lock = Free

\* -------------------------------------------------------- SpecLock claims
\* C23: no process holds the lock while it waits for it; every attempt to
\* get the lock ends, with the lock or with the lock-timeout error raised to
\* the caller; and every holder of the lock finishes and gives it back.
C23_LockBoundedNoDeadlock ==
    /\ [](\A p \in Procs : lock = p => proc[p].pc = "locked")
    /\ \A p \in Procs :
          (proc[p].pc = "acquire")
             ~> (proc[p].pc = "locked" \/ (proc[p].pc = "returned" /\ proc[p].err = "lock"))
    /\ \A p \in Procs : (proc[p].pc = "locked") ~> (proc[p].pc # "locked" /\ lock # p)

\* One process has given up on the lock after the timeout while another
\* got it twice and completed its update.
C23_Witness ==
    \E p, q \in Procs :
        /\ proc[p].pc = "returned" /\ proc[p].err = "lock"
        /\ proc[q].pc = "returned" /\ proc[q].err = "" /\ proc[q].op = "update"

\* ------------------------------------------------- failure of an activation
\* C35: an activate_environment call that raises because the id is unknown,
\* the target's container is absent, or its start, one-shot copy or restart
\* fails leaves the container of every other environment as it was.
C35_FailedActivationLeavesSiblings ==
    [][(/\ Calls("activate")
        /\ last'.err \in {"unknown", "notfound", "start", "copy", "restart"})
       => \A c \in Cids :
            c # Cid(last'.id) => containers'[c] = containers[c]]_vars

\* ---------------------------------------------- registry after a deletion
\* C34: whenever delete_environment returns or raises, every environment
\* whose container the call removed (the target, or one pruned from the
\* trash) has no record in the persisted registry, also when a later step of
\* the same call fails.
C34_RemovedContainersHaveNoRecord ==
    [][Calls("delete")
       => \A e \in Range(db') :
            containers[Cid(e.id)] # Absent => containers'[Cid(e.id)] # Absent]_vars

C38_CopyAtMostOnce ==
    [][/\ (Calls("activate") /\ last'.copied)
            => /\ containers[Cid(last'.id)] = "created"
               /\ containers'[Cid(last'.id)] # "created"
       /\ \A c \in Cids :
            containers'[c] = "created"
                => \/ containers[c] = "created"
                   \/ containers[c] = Absent /\ c = nextId /\ nextId' = c + 1]_vars

\* An activation has failed in the one-shot copy: the container runs and
\* the persisted record still says "created".
C38_Witness ==
    /\ last.op = "activate" /\ last.err = "copy" /\ last.copied
    /\ containers[Cid(last.id)] = "running"
    /\ Record(last.id, db).status = "created"

\* ------------------------------------------------- SpecFolderNames claims
\* The folder list of the settings object in the hands of the caller.
HeldFolders(call) == Folders(call.cur[1])

DistinctNames(folders) ==
    \A i, j \in DOMAIN folders :
        FolderName(folders[i]) = FolderName(folders[j]) => i = j

DistinctIds(folders) ==
    \A i, j \in DOMAIN folders : FolderId(folders[i]) = FolderId(folders[j]) => i = j

NamesWithinLimit(folders) ==
    \A i \in DOMAIN folders : NameLength(FolderName(folders[i])[2]) <= MaxNameLength

\* The step is a call of create_folder or update_folder by the caller.
FolderCall == proc'[Caller].op \in {"create_folder", "update_folder"}

\* C40 as stated: after any sequence of create_folder and update_folder calls
\* on settings whose folder names were pairwise distinct at the start, the
\* names are pairwise distinct and of at most 128 characters, and a call
\* that raises leaves the folder list unchanged.
C40_FolderNamesDistinctAndShort ==
    [][FolderCall
       => /\ DistinctNames(HeldFolders(proc'[Caller]))
          /\ NamesWithinLimit(HeldFolders(proc'[Caller]))
          /\ proc'[Caller].err # ""
                => HeldFolders(proc'[Caller]) = HeldFolders(proc[Caller])]_vars

\* C40, amended: a create_folder or update_folder call on settings whose
\* folders have pairwise distinct names, pairwise distinct ids and names of
\* at most 128 characters leaves settings of the same kind, and a call that
\* raises leaves the folder list unchanged.
C40_WellFormedFoldersPreserved ==
    [][(/\ FolderCall
        /\ DistinctNames(HeldFolders(proc[Caller]))
        /\ DistinctIds(HeldFolders(proc[Caller]))
        /\ NamesWithinLimit(HeldFolders(proc[Caller])))
       => /\ DistinctNames(HeldFolders(proc'[Caller]))
          /\ DistinctIds(HeldFolders(proc'[Caller]))
          /\ NamesWithinLimit(HeldFolders(proc'[Caller]))
          /\ proc'[Caller].err # ""
                => HeldFolders(proc'[Caller]) = HeldFolders(proc[Caller])]_vars

\* update_folder has renamed the first of two well-formed folders.
C40_Witness ==
    LET call == proc[Caller]
        folders == HeldFolders(call)
    IN  /\ call.op = "update_folder" /\ call.err = ""
        /\ Len(folders) = 2
        /\ DistinctNames(folders) /\ DistinctIds(folders) /\ NamesWithinLimit(folders)
        /\ FolderId(folders[1]) = call.arg[1] /\ FolderName(folders[1]) = call.arg[2]

\* ------------------------------------------------- SpecConnections claims
\* C39: under any interleaving with connect and disconnect, broadcast never
\* raises and sends to every connection that stays registered for the whole
\* broadcast, so a notification never ends the event-monitoring loop.
C39_BroadcastNeverRaises ==
    /\ ws.result # "raised"
    /\ ws.monitoring
    /\ ws.result = "returned" => ws.stayed \subseteq ws.sent

\* -------------------------------------------------- SpecConcurrent claims
\* Process p has returned successfully from a call of op.
Returned(p, op) ==
    proc[p].op = op /\ proc[p].pc = "returned" /\ proc[p].err = ""

\* C31: when two concurrent create_environment calls have both returned
\* successfully, the persisted registry holds both new records.
C31_ConcurrentCreatesBothPersisted ==
    \A p, q \in Procs :
        (p # q /\ Returned(p, "create") /\ Returned(q, "create"))
            => {proc[p].ret[1].id, proc[q].ret[1].id} \subseteq Ids(db)

\* C32: when two concurrent activate_environment calls with
\* allow_multiple=False for different environments have both returned
\* successfully, at most one container of the registry is running.
C32_ConcurrentActivationsOneRunning ==
    \A p, q \in Procs :
        (/\ p # q /\ Returned(p, "activate") /\ Returned(q, "activate")
         /\ proc[p].arg # proc[q].arg)
            => Cardinality({id \in Ids(db) : containers[Cid(id)] = "running"}) <= 1

\* C33: once delete_environment has hard-deleted an environment and
\* returned, no state of the persisted registry holds a record with that id,
\* whatever the other callers do, a load_environments that writes back the
\* list it read included.
C33_HardDeletedNeverReappears ==
    \A p \in Procs :
        (Returned(p, "delete") /\ proc[p].phase = "hard")
            => proc[p].arg \notin Ids(db)

====
